---- MODULE Spec2Model ----
(***************************************************************************)
(* Replication engine (src/gateway/sync.ts), gateway start single-flight   *)
(* (src/gateway/process.ts) and the wake/retry controller of the admin     *)
(* routes, as state machines.  Every await of the TypeScript code is a     *)
(* suspension point: one action runs the code from one await to the next.  *)
(***************************************************************************)
EXTENDS Integers, Sequences, FiniteSets, TLC

\* ------------------------------------------------------------------------
\* Bounds of the model
\* ------------------------------------------------------------------------
\* number of syncToR2 / syncCriticalFilesToR2 invocations
MaxCalls == 2
\* the clock runs from tick 1 to tick MaxNow
MaxNow == 3
\* milliseconds per clock tick
TickMs == 30000
\* number of ensureMoltbotGateway invocations
MaxCallers == 3
\* number of sandbox / store failures (a call that throws, a wait that runs out,
\* a write or read that is lost) in one behaviour
MaxFaults == 1
\* largest options.retryAttempts of a withWakeAndRetry call
MaxRetryAttempts == 3
\* iterations of the readiness loop of wakeContainer before its deadline
MaxPolls == 2
\* number of logEvent calls
MaxEvents == 103
\* options.retryAttempts of the withWakeAndRetry call that reaches the backoff cap
MaxBackoffAttempts == 4

\* ------------------------------------------------------------------------
\* Program constants
\* ------------------------------------------------------------------------
SYNC_LOCK_TIMEOUT_MS == 60000
MAX_RECENT_RESULTS == 10

\* lock keys (options.r2Prefix); one sandbox per tenant
Tenants == {"users/a", "users/b"}
Calls == 1..MaxCalls

\* lock keys of startupLocks (`openclaw-${userId}`)
SandboxNames == {"openclaw-a", "openclaw-b"}
Callers == 1..MaxCallers

NoLock == 0
NoCall == 0
\* proc.exitCode of a process that has not exited
NullCode == -1
\* exit codes of the mirror command: 0 ok, 24 vanished source files, 23 partial
\* transfer
RsyncExitCodes == {0, 24, 23}
\* content of a marker file that does not exist or could not be read
NoMarker == <<"", 0>>

\* a SyncResult: success, error, syncId, rsyncExitCode
Result(ok, err, id, code) ==
    [success |-> ok, error |-> err, syncId |-> id, rsyncExitCode |-> code]

\* the call has not returned yet / the call rejected instead of returning
NoResult == Result(FALSE, "(pending)", NoMarker, NullCode)
Thrown == Result(FALSE, "(thrown)", NoMarker, NullCode)

\* the tenant's /root/.clawdbot/clawdbot.json
ConfigStates == {"valid", "missing", "unparsable", "nosections"}

VARIABLES
    now,                \* Date.now(), in ticks
    syncLocks,          \* Map lockKey -> timestamp of acquisition (NoLock: absent)
    slotHolder,         \* history: the call whose syncLocks.set installed the entry
    recentSyncResults,  \* Map key -> SyncResult[], newest first
    lastSync,           \* <mountPath>/.last-sync: the sync id written last
    lastSyncCritical,   \* <mountPath>/.last-sync-critical
    pc,                 \* position of each call
    kind,               \* "full" (syncToR2) or "critical" (syncCriticalFilesToR2)
    tenant,             \* options.r2Prefix of each call
    copyProc,           \* the call's copy process: "none", "running", "exited"
    syncCmdRun,         \* the trees the call's syncCmd has copied and its exit code
    criticalCmdRun,     \* what the call's criticalCmd met: the config file, failed copies
    copyStart,          \* tick at which the call began to wait for its copy (0: not waiting)
    sourceSeen,         \* state of the primary configuration file when the call checked it
    exitSeen,           \* proc.exitCode as read by the call after its wait
    markerSeen,         \* writtenSyncId as read back by the call
    ret,                \* value the call returned (Thrown: it rejected)
    faults              \* failures of the sandbox or the store so far

syncVars == <<now, syncLocks, slotHolder, recentSyncResults, lastSync,
              lastSyncCritical, pc, kind, tenant, copyProc, syncCmdRun, criticalCmdRun,
              copyStart,
              sourceSeen, exitSeen, markerSeen, ret>>

VARIABLES
    startupLocks,       \* Map sandboxName -> startup promise (NoCall: absent)
    gpc,                \* position of each ensureMoltbotGateway caller
    sandboxName,        \* lock key of each caller
    awaited,            \* the startup promise the caller awaits (named by its creator)
    startup,            \* position of the doEnsureMoltbotGateway run each caller created
    existingProcess,    \* the process that run found (named by the run that started it)
    process,            \* status of the gateway process each run started
    cleanup,            \* the 5 s setTimeout of each caller: "none", "armed", "fired"
    arrival             \* what each caller found in startupLocks when it arrived

gatewayVars == <<startupLocks, gpc, sandboxName, awaited, startup, existingProcess,
                 process, cleanup, arrival>>

VARIABLES
    rpc,                \* position of the withWakeAndRetry call
    attempt,            \* loop index of the for loop
    retryAttempts,      \* options.retryAttempts of the call
    lastError,          \* message of the error the catch block saw last
    errors,             \* messages of the failed attempts, in order
    response,           \* what the call gave back
    delayMs,            \* the backoff delay computed last
    polls,              \* iterations of the readiness loop of this wakeContainer
    wakeLastError,      \* lastError of wakeContainer
    gatewayStatus,      \* status of the listed 'clawdbot gateway' process ("none": absent)
    otherProcesses,     \* the sandbox lists a running '/usr/local/bin/start-moltbot.sh'
    bootRequested,      \* wakeContainer has called ensureMoltbotGateway
    firstListing,       \* what the first listProcesses of the call gave
    wakes,              \* wakeContainer invocations of this call
    readyVerified,      \* this attempt saw the gateway running and then responsive
    operations,         \* invocations of the operation
    probe               \* the checkContainerHealth call of the last step, if it made one

retryVars == <<rpc, attempt, retryAttempts, lastError, errors, response, delayMs,
               polls, wakeLastError, gatewayStatus, otherProcesses, bootRequested,
               firstListing, wakes, readyVerified, operations, probe>>

VARIABLES
    spc,                \* position of the syncBeforeShutdown call
    timeoutMs,          \* options.timeoutMs || 25000 of that call
    startTime,          \* its startTime (a clock tick)
    remainingTime,      \* the budget it computed after the critical pass
    criticalResult,     \* what syncCriticalFilesToR2 returned to it
    fullResult,         \* what syncToR2 returned to it
    shutdownResult,     \* what syncBeforeShutdown returned
    rpos,               \* position of the restartContainer call
    syncResult,         \* syncResult of restartContainer
    killsIssued,        \* restartContainer has reached its kill loop
    restartReturned,    \* what restartContainer returned
    wakeCaller          \* the ensureMoltbotGateway call restartContainer made (NoCall: none)

shutdownVars == <<spc, timeoutMs, startTime, remainingTime, criticalResult,
                  fullResult, shutdownResult, rpos, syncResult, killsIssued,
                  restartReturned, wakeCaller>>

VARIABLES
    filePath,           \* the filePath argument
    priority,           \* what getPathPriority returned for it (0: not called)
    isCritical,         \* what isCriticalPath returned for it
    mirrored,           \* criticalCmd copies the file at that path
    pathCalls           \* which of the three have been applied to filePath

pathVars == <<filePath, priority, isCritical, mirrored, pathCalls>>

VARIABLES
    eventBuffer,        \* eventBuffer of the events module (events named by their number)
    logged,             \* number of logEvent calls so far
    recentLimit,        \* limit of the last getRecentEvents call (-1: none yet)
    recentEvents        \* what that call returned

eventVars == <<eventBuffer, logged, recentLimit, recentEvents>>

vars == <<syncVars, gatewayVars, retryVars, shutdownVars, pathVars, eventVars, faults>>

\* ------------------------------------------------------------------------
\* Helpers of sync.ts
\* ------------------------------------------------------------------------
\* generateSyncId: `sync-${Date.now()}-${random}`; the random suffix of two calls
\* differs, which the call's index stands for
generateSyncId(c) == <<"sync", c>>

generateCriticalSyncId(c) == <<"critical-sync", c>>

\* storeSyncResult: unshift, then pop when longer than MAX_RECENT_RESULTS
storeSyncResult(results, key, result) ==
    LET list == <<result>> \o results[key]
    IN  [results EXCEPT ![key] =
            IF Len(list) > MAX_RECENT_RESULTS THEN SubSeq(list, 1, Len(list) - 1)
            ELSE list]

\* lockAge = Date.now() - existingLock
LockAge(t) == (now - syncLocks[t]) * TickMs


\* the entry counts as held whatever its age
LockHeldFresh_NoTtl(t) == syncLocks[t] # NoLock

\* an entry exists and lockAge < SYNC_LOCK_TIMEOUT_MS
LockHeldFresh(t) == syncLocks[t] # NoLock /\ LockAge(t) < SYNC_LOCK_TIMEOUT_MS

\* the copy processes of every sandbox
RunningCopies_AllSandboxes(t) == {c \in Calls : copyProc[c] = "running"}

\* a copy process of the tenant that is still running in its sandbox
RunningCopies(t) == {c \in Calls : tenant[c] = t /\ copyProc[c] = "running"}

\* syncCmd has not run to its end
NotRun == [trees |-> {}, exit |-> NullCode]

\* criticalCmd has not run to its end
NoCriticalRun == [source |-> "none", failed |-> {}]

\* ------------------------------------------------------------------------
\* Initial state
\* ------------------------------------------------------------------------
InitSync ==
    /\ now = 1
    /\ syncLocks = [t \in Tenants |-> NoLock]
    /\ slotHolder = [t \in Tenants |-> NoCall]
    /\ recentSyncResults = [t \in Tenants |-> <<>>]
    /\ lastSync = [t \in Tenants |-> NoMarker]
    /\ lastSyncCritical = [t \in Tenants |-> NoMarker]
    /\ pc = [c \in Calls |-> "idle"]
    /\ kind = [c \in Calls |-> "full"]
    /\ tenant = [c \in Calls |-> "users/a"]
    /\ copyProc = [c \in Calls |-> "none"]
    /\ syncCmdRun = [c \in Calls |-> NotRun]
    /\ criticalCmdRun = [c \in Calls |-> NoCriticalRun]
    /\ copyStart = [c \in Calls |-> 0]
    /\ sourceSeen = [c \in Calls |-> "unchecked"]
    /\ markerSeen = [c \in Calls |-> NoMarker]
    /\ exitSeen = [c \in Calls |-> NullCode]
    /\ ret = [c \in Calls |-> NoResult]
    /\ faults = 0

\* the step meets a failure of the sandbox or the store (failed), or none
Faulty(failed) ==
    /\ failed => faults < MaxFaults
    /\ faults' = IF failed THEN faults + 1 ELSE faults

\* a result is stored and the call goes on to the finally block of syncToR2
Finish(c, result) ==
    /\ recentSyncResults' = storeSyncResult(recentSyncResults, tenant[c], result)
    /\ ret' = [ret EXCEPT ![c] = result]
    /\ pc' = [pc EXCEPT ![c] = "release"]

\* a call has returned from doSyncToR2 and its finally block has not run yet:
\* the block runs in the continuation of the same await, before any timer or
\* any other request
Releasing == \E c \in Calls : pc[c] = "release"

\* calls are started in index order (they are interchangeable)
MayStart(c) ==
    /\ pc[c] = "idle" /\ \A d \in Calls : d < c => pc[d] # "idle"
    /\ ~Releasing

\* tenants are interchangeable: the first call is for the first of them
MayTarget(c, t) == c = 1 => t = "users/a"

\* some call is between its first and its last step
Active == \E c \in Calls : pc[c] \notin {"idle", "done"}

\* ------------------------------------------------------------------------
\* syncToR2
\* ------------------------------------------------------------------------
\* lines 122-168: the lock check, the acquisition and, inside doSyncToR2, the
\* check that the store is configured (no await in between)
SyncToR2Call(c, t, r2Configured) ==
    /\ MayStart(c) /\ MayTarget(c, t)
    /\ kind' = [kind EXCEPT ![c] = "full"]
    /\ UNCHANGED <<syncCmdRun, criticalCmdRun>>
    /\ tenant' = [tenant EXCEPT ![c] = t]
    /\ IF LockHeldFresh(t)
       THEN LET result == Result(FALSE, "Sync already in progress (lock)",
                                 generateSyncId(c), NullCode)
            IN  /\ recentSyncResults' = storeSyncResult(recentSyncResults, t, result)
                /\ ret' = [ret EXCEPT ![c] = result]
                /\ pc' = [pc EXCEPT ![c] = "done"]
                /\ UNCHANGED <<syncLocks, slotHolder>>
       ELSE /\ syncLocks' = [syncLocks EXCEPT ![t] = now]
            /\ slotHolder' = [slotHolder EXCEPT ![t] = c]
            /\ IF r2Configured
               THEN /\ pc' = [pc EXCEPT ![c] = "mount"]
                    /\ UNCHANGED <<recentSyncResults, ret>>
               ELSE LET result == Result(FALSE, "R2 storage is not configured",
                                         generateSyncId(c), NullCode)
                    IN  /\ recentSyncResults' =
                               storeSyncResult(recentSyncResults, t, result)
                        /\ ret' = [ret EXCEPT ![c] = result]
                        /\ pc' = [pc EXCEPT ![c] = "release"]
    /\ UNCHANGED <<now, lastSync, lastSyncCritical, copyProc, copyStart, sourceSeen, exitSeen,
                   markerSeen>>
    /\ UNCHANGED faults

\* a call of syncToR2 from outside syncBeforeShutdown
SyncToR2(c, t, r2Configured) ==
    /\ SyncToR2Call(c, t, r2Configured)
    /\ UNCHANGED <<gatewayVars, retryVars, pathVars, eventVars, shutdownVars>>

\* line 171: await mountR2Storage; it is not inside a try
MountOutcomes == {"mounted", "failed", "throws"}

DoSyncMount(c, outcome) ==
    /\ pc[c] = "mount" /\ kind[c] = "full"
    /\ outcome \in MountOutcomes
    /\ CASE outcome = "mounted" ->
              /\ pc' = [pc EXCEPT ![c] = "validate"]
              /\ UNCHANGED <<recentSyncResults, ret>>
         [] outcome = "failed" ->
              Finish(c, Result(FALSE, "Failed to mount R2 storage",
                               generateSyncId(c), NullCode))
         [] outcome = "throws" ->
              /\ ret' = [ret EXCEPT ![c] = Thrown]
              /\ pc' = [pc EXCEPT ![c] = "release"]
              /\ UNCHANGED recentSyncResults
    /\ UNCHANGED <<now, syncLocks, slotHolder, lastSync, lastSyncCritical,
                   kind, syncCmdRun, criticalCmdRun,
                   tenant, copyProc, copyStart, sourceSeen, exitSeen, markerSeen>>
    /\ Faulty(outcome # "mounted")
    /\ UNCHANGED <<gatewayVars, retryVars, pathVars, eventVars, shutdownVars>>


\* the check only tests that the file exists
SourceCheckPrintsOk_ExistsOnly(source) == source # "missing"

\* stdout of the check command contains 'ok' only when the file exists, parses
\* and has one of agents / channels / gateway
SourceCheckPrintsOk(source) == source = "valid"

\* lines 191-221: the source sanity check. source: the state of clawdbot.json
\* when the command runs; checkFails: startProcess, the wait or getLogs threw;
\* inTime: the command ended within its 5 s wait
DoSyncValidate(c, source, checkFails, inTime) ==
    /\ pc[c] = "validate"
    /\ source \in ConfigStates
    /\ sourceSeen' = [sourceSeen EXCEPT ![c] = source]
    /\ IF checkFails
       THEN Finish(c, Result(FALSE, "Failed to verify source config",
                             generateSyncId(c), NullCode))
       ELSE IF inTime /\ SourceCheckPrintsOk(source)
       THEN /\ pc' = [pc EXCEPT ![c] = "pileup"]
            /\ UNCHANGED <<recentSyncResults, ret>>
       ELSE Finish(c, Result(FALSE, "Sync aborted: config appears empty or invalid",
                             generateSyncId(c), NullCode))
    /\ UNCHANGED <<now, syncLocks, slotHolder, lastSync, lastSyncCritical,
                   kind, syncCmdRun, criticalCmdRun,
                   tenant, copyProc, copyStart, exitSeen, markerSeen>>
    /\ Faulty(checkFails \/ ~inTime)
    /\ UNCHANGED <<gatewayVars, retryVars, pathVars, eventVars, shutdownVars>>

\* pgrep -f "rsync.*/root/.clawdbot" prints a pid when a copy command of this
\* sandbox (full or critical) is running
PgrepFindsRsync(t, c) == RunningCopies(t) \ {c} # {}

\* lines 225-254: the pileup guard (a throw is swallowed: "Non-critical,
\* continue with sync"), then the file count, which has no effect
DoSyncPileupCheck(c, checkFails) ==
    /\ pc[c] = "pileup"
    /\ IF ~checkFails /\ PgrepFindsRsync(tenant[c], c)
       THEN Finish(c, Result(FALSE, "Sync already in progress (pileup)",
                             generateSyncId(c), NullCode))
       ELSE /\ pc' = [pc EXCEPT ![c] = "startCopy"]
            /\ UNCHANGED <<recentSyncResults, ret>>
    /\ UNCHANGED <<now, syncLocks, slotHolder, lastSync, lastSyncCritical,
                   kind, syncCmdRun, criticalCmdRun,
                   tenant, copyProc, copyStart, sourceSeen, exitSeen, markerSeen>>
    /\ Faulty(checkFails)
    /\ UNCHANGED <<gatewayVars, retryVars, pathVars, eventVars, shutdownVars>>

\* line 264: sandbox.startProcess(syncCmd)
DoSyncStartCopy(c, startFails) ==
    /\ pc[c] = "startCopy" /\ kind[c] = "full"
    /\ IF startFails
       THEN /\ Finish(c, Result(FALSE, "Sync error", generateSyncId(c), NullCode))
            /\ UNCHANGED <<copyProc, copyStart>>
       ELSE /\ copyProc' = [copyProc EXCEPT ![c] = "running"]
            /\ copyStart' = [copyStart EXCEPT ![c] = now]
            /\ pc' = [pc EXCEPT ![c] = "copy"]
            /\ UNCHANGED <<recentSyncResults, ret>>
    /\ UNCHANGED <<now, syncLocks, slotHolder, lastSync, lastSyncCritical,
                   kind, syncCmdRun, criticalCmdRun, tenant, sourceSeen, exitSeen, markerSeen>>
    /\ Faulty(startFails)
    /\ UNCHANGED <<gatewayVars, retryVars, pathVars, eventVars, shutdownVars>>

\* line 261: `rsync <config tree> && rsync <workspace tree>; rsync_exit=$?`: the
\* second rsync runs only when the first exits with 0, and $? is the exit code
\* of the rsync that ran last
SyncCmd(configExit, workspaceExit) ==
    IF configExit = 0
    THEN [trees |-> {"config", "workspace"}, exit |-> workspaceExit]
    ELSE [trees |-> {"config"}, exit |-> configExit]

\* line 261: syncCmd runs to its end in the sandbox: the two rsync runs; echo
\* "${syncId}|${timestamp}" > .last-sync (whatever rsync's exit code); exit with
\* rsync's code. written: the echo reached the store
RunSyncCmd(c, configExit, workspaceExit, written) ==
    /\ kind[c] = "full" /\ copyProc[c] = "running"
    /\ configExit \in RsyncExitCodes /\ workspaceExit \in RsyncExitCodes
    /\ configExit # 0 => workspaceExit = 0
    /\ copyProc' = [copyProc EXCEPT ![c] = "exited"]
    /\ syncCmdRun' = [syncCmdRun EXCEPT ![c] = SyncCmd(configExit, workspaceExit)]
    /\ UNCHANGED criticalCmdRun
    /\ lastSync' = IF written THEN [lastSync EXCEPT ![tenant[c]] = generateSyncId(c)]
                   ELSE lastSync
    /\ UNCHANGED <<now, syncLocks, slotHolder, recentSyncResults, lastSyncCritical,
                   pc, kind, tenant, sourceSeen, exitSeen, markerSeen, ret>>
    /\ Faulty(~written)
    /\ UNCHANGED copyStart
    /\ UNCHANGED <<gatewayVars, retryVars, pathVars, eventVars, shutdownVars>>

\* lines 265-268: waitForProcess(proc, 30000) returns when the process has exited
\* or when the 30 s are over; then proc.exitCode is read (code, when it exited)
DoSyncWaitCopy(c, code, waitFails) ==
    /\ pc[c] = "copy" /\ kind[c] = "full"
    /\ code \in RsyncExitCodes
    /\ code = IF copyProc[c] = "exited" THEN syncCmdRun[c].exit ELSE 0
    /\ IF waitFails
       THEN /\ Finish(c, Result(FALSE, "Sync error", generateSyncId(c), NullCode))
            /\ UNCHANGED exitSeen
       ELSE /\ exitSeen' = [exitSeen EXCEPT ![c] =
                   IF copyProc[c] = "exited" THEN code ELSE NullCode]
            /\ pc' = [pc EXCEPT ![c] = "verify"]
            /\ UNCHANGED <<recentSyncResults, ret>>
    /\ UNCHANGED <<now, syncLocks, slotHolder, lastSync, lastSyncCritical,
                   kind, syncCmdRun, criticalCmdRun, tenant, copyProc, sourceSeen, markerSeen>>
    /\ Faulty(waitFails)
    /\ copyStart' = [copyStart EXCEPT ![c] = 0]
    /\ UNCHANGED <<gatewayVars, retryVars, pathVars, eventVars, shutdownVars>>


\* every exit code passes
ExitCodeAccepted_Any(code) == TRUE

\* line 296: the exit codes that do not fail the sync
ExitCodeAccepted(code) == code = NullCode \/ code = 0 \/ code = 24


\* an empty read-back passes the comparison
MarkerMismatch_EmptyOk(writtenSyncId, syncId) ==
    writtenSyncId # syncId /\ writtenSyncId # NoMarker

\* line 280: writtenSyncId !== syncId
MarkerMismatch(writtenSyncId, syncId) == writtenSyncId # syncId

\* lines 280-330: the result once the marker has been read back
VerifyOutcome(syncId, writtenSyncId, rsyncExitCode) ==
    IF MarkerMismatch(writtenSyncId, syncId)
    THEN Result(FALSE, "Sync verification failed", syncId, rsyncExitCode)
    ELSE IF ~ExitCodeAccepted(rsyncExitCode)
    THEN Result(FALSE, "Rsync failed with exit code", syncId, rsyncExitCode)
    ELSE Result(TRUE, "", syncId, IF rsyncExitCode = NullCode THEN 0 ELSE rsyncExitCode)

\* lines 270-345: cat .last-sync, compare the id, check the exit code, count the
\* files. readFails: the cat threw; readEmpty: cat printed nothing; logsFail:
\* proc.getLogs() of a failure branch threw
DoSyncVerify(c, readFails, readEmpty, logsFail) ==
    /\ pc[c] = "verify" /\ kind[c] = "full"
    /\ LET written == IF readEmpty THEN NoMarker ELSE lastSync[tenant[c]]
           outcome == VerifyOutcome(generateSyncId(c), written, exitSeen[c])
       IN  IF readFails
           THEN /\ Finish(c, Result(FALSE, "Sync error", generateSyncId(c), NullCode))
                /\ UNCHANGED markerSeen
           ELSE /\ markerSeen' = [markerSeen EXCEPT ![c] = written]
                /\ IF logsFail /\ ~outcome.success
                   THEN Finish(c, Result(FALSE, "Sync error", generateSyncId(c),
                                         NullCode))
                   ELSE Finish(c, outcome)
    /\ UNCHANGED <<now, syncLocks, slotHolder, lastSync, lastSyncCritical,
                   kind, syncCmdRun, criticalCmdRun,
                   tenant, copyProc, copyStart, sourceSeen, exitSeen>>
    /\ Faulty(readFails \/ readEmpty \/ logsFail)
    /\ UNCHANGED <<gatewayVars, retryVars, pathVars, eventVars, shutdownVars>>

\* the call's local variables go out of scope
Forget(c) ==
    /\ sourceSeen' = [sourceSeen EXCEPT ![c] = "unchecked"]
    /\ exitSeen' = [exitSeen EXCEPT ![c] = NullCode]
    /\ markerSeen' = [markerSeen EXCEPT ![c] = NoMarker]


\* the finally block forgets the delete
LockReleased_Kept(t) == syncLocks

\* the Map after syncLocks.delete(lockKey)
LockReleased(t) == [syncLocks EXCEPT ![t] = NoLock]

\* lines 150-153: finally { syncLocks.delete(lockKey) }
SyncRelease(c) ==
    /\ pc[c] = "release"
    /\ syncLocks' = LockReleased(tenant[c])
    /\ slotHolder' = [slotHolder EXCEPT ![tenant[c]] =
                         IF syncLocks'[tenant[c]] = NoLock THEN NoCall ELSE @]
    /\ pc' = [pc EXCEPT ![c] = "done"]
    /\ Forget(c)
    /\ UNCHANGED <<now, recentSyncResults, lastSync, lastSyncCritical,
                   kind, syncCmdRun, criticalCmdRun, tenant, copyProc, copyStart, ret>>
    /\ UNCHANGED faults
    /\ UNCHANGED <<gatewayVars, retryVars, pathVars, eventVars, shutdownVars>>

\* ------------------------------------------------------------------------
\* syncCriticalFilesToR2
\* ------------------------------------------------------------------------
\* BACKUP_FEATURE_FLAGS.CRITICAL_FILE_PRIORITY
CRITICAL_FILE_PRIORITY == TRUE

\* a critical call returns: nothing is stored and there is no lock to release
CriticalReturn(c, result) ==
    /\ ret' = [ret EXCEPT ![c] = result]
    /\ pc' = [pc EXCEPT ![c] = "done"]

\* lines 360-376: the feature flag and the check that the store is configured
SyncCriticalFilesToR2Call(c, t, r2Configured) ==
    /\ MayStart(c) /\ MayTarget(c, t)
    /\ kind' = [kind EXCEPT ![c] = "critical"]
    /\ UNCHANGED <<syncCmdRun, criticalCmdRun>>
    /\ tenant' = [tenant EXCEPT ![c] = t]
    /\ IF ~CRITICAL_FILE_PRIORITY
       THEN CriticalReturn(c, Result(TRUE, "", generateCriticalSyncId(c), NullCode))
       ELSE IF ~r2Configured
       THEN CriticalReturn(c, Result(FALSE, "R2 storage is not configured",
                                     generateCriticalSyncId(c), NullCode))
       ELSE /\ pc' = [pc EXCEPT ![c] = "mount"]
            /\ UNCHANGED ret
    /\ UNCHANGED <<now, syncLocks, slotHolder, recentSyncResults, lastSync,
                   lastSyncCritical, copyProc, copyStart, sourceSeen, exitSeen, markerSeen>>
    /\ UNCHANGED faults

\* a call of syncCriticalFilesToR2 from outside syncBeforeShutdown
SyncCriticalFilesToR2(c, t, r2Configured) ==
    /\ SyncCriticalFilesToR2Call(c, t, r2Configured)
    /\ UNCHANGED <<gatewayVars, retryVars, pathVars, eventVars, shutdownVars>>

\* lines 379-387: await mountR2Storage
CriticalMount(c, outcome) ==
    /\ pc[c] = "mount" /\ kind[c] = "critical"
    /\ outcome \in MountOutcomes
    /\ CASE outcome = "mounted" ->
              /\ pc' = [pc EXCEPT ![c] = "startCopy"]
              /\ UNCHANGED ret
         [] outcome = "failed" ->
              CriticalReturn(c, Result(FALSE, "Failed to mount R2 storage",
                                       generateCriticalSyncId(c), NullCode))
         [] outcome = "throws" -> CriticalReturn(c, Thrown)
    /\ UNCHANGED <<now, syncLocks, slotHolder, recentSyncResults, lastSync,
                   lastSyncCritical, kind, syncCmdRun, criticalCmdRun,
                   tenant, copyProc, copyStart, sourceSeen, exitSeen,
                   markerSeen>>
    /\ Faulty(outcome # "mounted")
    /\ UNCHANGED <<gatewayVars, retryVars, pathVars, eventVars, shutdownVars>>

\* line 406: sandbox.startProcess(criticalCmd)
CriticalStartCopy(c, startFails) ==
    /\ pc[c] = "startCopy" /\ kind[c] = "critical"
    /\ IF startFails
       THEN /\ CriticalReturn(c, Result(FALSE, "Critical file sync error",
                                        generateCriticalSyncId(c), NullCode))
            /\ UNCHANGED <<copyProc, copyStart>>
       ELSE /\ copyProc' = [copyProc EXCEPT ![c] = "running"]
            /\ copyStart' = [copyStart EXCEPT ![c] = now]
            /\ pc' = [pc EXCEPT ![c] = "copy"]
            /\ UNCHANGED ret
    /\ UNCHANGED <<now, syncLocks, slotHolder, recentSyncResults, lastSync,
                   lastSyncCritical, kind, syncCmdRun, criticalCmdRun,
                   tenant, sourceSeen, exitSeen, markerSeen>>
    /\ Faulty(startFails)
    /\ UNCHANGED <<gatewayVars, retryVars, pathVars, eventVars, shutdownVars>>

\* the three copies of criticalCmd
CriticalCopies == {"credentials", "config", "registered"}

\* line 402: `exit 0` after copies that are joined by `;` with 2>/dev/null
CriticalExit(failed) == 0

\* lines 396-403: what criticalCmd does with the local files: no check of
\* clawdbot.json comes before the copies; rsync of a file that does not exist
\* ends with an error; credentialsFails: the copy of the credentials directory
\* ended with an error
CriticalCmd(source, credentialsFails) ==
    [source |-> source,
     failed |-> (IF source = "missing" THEN {"config"} ELSE {})
                \cup (IF credentialsFails THEN {"credentials"} ELSE {})]

\* the states of clawdbot.json the command is run over: criticalCmd tests
\* nothing of the file, so one state in which it is not valid stands for all
CriticalSources == {"valid", "missing"}

\* lines 396-403: criticalCmd runs to its end: three rsync runs, the marker,
\* exit 0. source: the state of clawdbot.json when it runs; written: the echo
\* reached the store
RunCriticalCmd(c, source, credentialsFails, written) ==
    /\ kind[c] = "critical" /\ copyProc[c] = "running"
    /\ source \in CriticalSources
    /\ ~(credentialsFails /\ ~written)
    /\ copyProc' = [copyProc EXCEPT ![c] = "exited"]
    /\ criticalCmdRun' = [criticalCmdRun EXCEPT ![c] = CriticalCmd(source, credentialsFails)]
    /\ lastSyncCritical' =
          IF written
          THEN [lastSyncCritical EXCEPT ![tenant[c]] = generateCriticalSyncId(c)]
          ELSE lastSyncCritical
    /\ UNCHANGED <<now, syncLocks, slotHolder, recentSyncResults, lastSync,
                   pc, kind, syncCmdRun, tenant, sourceSeen, exitSeen, markerSeen, ret>>
    /\ Faulty(~written \/ credentialsFails)
    /\ UNCHANGED copyStart
    /\ UNCHANGED <<gatewayVars, retryVars, pathVars, eventVars, shutdownVars>>

\* lines 407-409: waitForProcess(proc, options.timeoutMs || 15000)
CriticalWaitCopy(c, waitFails) ==
    /\ pc[c] = "copy" /\ kind[c] = "critical"
    /\ IF waitFails
       THEN /\ CriticalReturn(c, Result(FALSE, "Critical file sync error",
                                        generateCriticalSyncId(c), NullCode))
            /\ UNCHANGED exitSeen
       ELSE /\ exitSeen' = [exitSeen EXCEPT ![c] =
                   IF copyProc[c] = "exited" THEN CriticalExit(criticalCmdRun[c].failed)
                   ELSE NullCode]
            /\ pc' = [pc EXCEPT ![c] = "verify"]
            /\ UNCHANGED ret
    /\ UNCHANGED <<now, syncLocks, slotHolder, recentSyncResults, lastSync,
                   lastSyncCritical, kind, syncCmdRun, criticalCmdRun,
                   tenant, copyProc, sourceSeen, markerSeen>>
    /\ Faulty(waitFails)
    /\ copyStart' = [copyStart EXCEPT ![c] = 0]
    /\ UNCHANGED <<gatewayVars, retryVars, pathVars, eventVars, shutdownVars>>

\* lines 411-445: read the critical marker back and compare the id
CriticalVerify(c, readFails, readEmpty) ==
    /\ pc[c] = "verify" /\ kind[c] = "critical"
    /\ LET written == IF readEmpty THEN NoMarker ELSE lastSyncCritical[tenant[c]]
           id == generateCriticalSyncId(c)
       IN  IF readFails
           THEN /\ CriticalReturn(c, Result(FALSE, "Critical file sync error", id,
                                            NullCode))
                /\ UNCHANGED markerSeen
           ELSE /\ markerSeen' = [markerSeen EXCEPT ![c] = written]
                /\ IF MarkerMismatch(written, id)
                   THEN CriticalReturn(c, Result(FALSE,
                            "Critical file sync verification failed", id, exitSeen[c]))
                   ELSE CriticalReturn(c, Result(TRUE, "", id,
                            IF exitSeen[c] = NullCode THEN 0 ELSE exitSeen[c]))
    /\ UNCHANGED <<now, syncLocks, slotHolder, recentSyncResults, lastSync,
                   lastSyncCritical, kind, syncCmdRun, criticalCmdRun,
                   tenant, copyProc, copyStart, sourceSeen, exitSeen>>
    /\ Faulty(readFails \/ readEmpty)
    /\ UNCHANGED <<gatewayVars, retryVars, pathVars, eventVars, shutdownVars>>

\* waitForProcess(proc, timeoutMs) has returned once timeoutMs have passed: the
\* full copy is waited for 30 s (line 265), the critical copy for
\* options.timeoutMs || 15000 (line 407)
FULL_COPY_WAIT_MS == 30000
CRITICAL_COPY_WAIT_MS == 15000

\* line 485: syncBeforeShutdown passes timeoutMs: 10000 to the critical pass
SHUTDOWN_CRITICAL_TIMEOUT_MS == 10000

\* the timeout of the copy wait of call c: line 265 for the full pass (a
\* literal, whatever options.timeoutMs is), line 407 for the critical pass
CopyWaitMs(c) ==
    IF kind[c] = "full" THEN FULL_COPY_WAIT_MS
    ELSE IF spc # "idle" THEN SHUTDOWN_CRITICAL_TIMEOUT_MS
    ELSE CRITICAL_COPY_WAIT_MS

WaitWithin(c, time) == (time - copyStart[c]) * TickMs <= CopyWaitMs(c)

\* time passes
Tick ==
    /\ now < MaxNow
    /\ Active
    /\ ~Releasing
    /\ \A c \in Calls : pc[c] = "copy" => WaitWithin(c, now + 1)
    /\ now' = now + 1
    /\ UNCHANGED <<syncLocks, slotHolder, recentSyncResults, lastSync,
                   lastSyncCritical, pc, kind, syncCmdRun, criticalCmdRun,
                   tenant, copyProc, copyStart, sourceSeen,
                   exitSeen, markerSeen, ret>>
    /\ UNCHANGED faults
    /\ UNCHANGED <<gatewayVars, retryVars, pathVars, eventVars, shutdownVars>>

NextSync ==
    \/ \E c \in Calls, t \in Tenants, b \in BOOLEAN : SyncToR2(c, t, b)
    \/ \E c \in Calls, o \in MountOutcomes : DoSyncMount(c, o)
    \/ \E c \in Calls, s \in ConfigStates, f \in BOOLEAN, i \in BOOLEAN :
          DoSyncValidate(c, s, f, i)
    \/ \E c \in Calls, f \in BOOLEAN : DoSyncPileupCheck(c, f)
    \/ \E c \in Calls, f \in BOOLEAN : DoSyncStartCopy(c, f)
    \/ \E c \in Calls, e, x \in RsyncExitCodes, w \in BOOLEAN : RunSyncCmd(c, e, x, w)
    \/ \E c \in Calls, code \in RsyncExitCodes, f \in BOOLEAN : DoSyncWaitCopy(c, code, f)
    \/ \E c \in Calls, f \in BOOLEAN, e \in BOOLEAN, l \in BOOLEAN :
          DoSyncVerify(c, f, e, l)
    \/ \E c \in Calls : SyncRelease(c)
    \/ \E c \in Calls, t \in Tenants, b \in BOOLEAN : SyncCriticalFilesToR2(c, t, b)
    \/ \E c \in Calls, o \in MountOutcomes : CriticalMount(c, o)
    \/ \E c \in Calls, f \in BOOLEAN : CriticalStartCopy(c, f)
    \/ \E c \in Calls, s \in CriticalSources, f \in BOOLEAN, w \in BOOLEAN :
          RunCriticalCmd(c, s, f, w)
    \/ \E c \in Calls, f \in BOOLEAN : CriticalWaitCopy(c, f)
    \/ \E c \in Calls, f \in BOOLEAN, e \in BOOLEAN : CriticalVerify(c, f, e)
    \/ Tick


\* ------------------------------------------------------------------------
\* syncBeforeShutdown (sync.ts) and restartContainer (process.ts)
\* ------------------------------------------------------------------------
\* BACKUP_FEATURE_FLAGS.SHUTDOWN_SYNC
SHUTDOWN_SYNC == TRUE

\* line 497: options.timeoutMs || 25000
DEFAULT_SHUTDOWN_TIMEOUT_MS == 25000
\* process.ts line 278: timeoutMs: 30000
RESTART_SYNC_TIMEOUT_MS == 30000
\* line 500: remainingTime < 5000
MIN_FULL_SYNC_BUDGET_MS == 5000

\* the passes of syncBeforeShutdown are the first two sync calls
CriticalCall == 1
FullCall == 2

\* the fields of a SyncResult that syncBeforeShutdown and restartContainer read.
\* fileCount and lastSync are named by the call whose result carries them
\* (lines 321-327 and 428-434); a failure result has neither
ReturnedBy(c) ==
    [success |-> ret[c].success,
     error |-> ret[c].error,
     syncId |-> ret[c].syncId,
     fileCount |-> IF ret[c].success THEN c ELSE NoCall,
     lastSync |-> IF ret[c].success THEN c ELSE NoCall]

NoShutdownResult ==
    [success |-> FALSE, error |-> "(pending)", syncId |-> NoMarker,
     fileCount |-> NoCall, lastSync |-> NoCall]

\* lines 520-527: the combined result
Combined(critical, full) ==
    [success |-> TRUE, error |-> "", syncId |-> <<"shutdown-sync", full.syncId[2]>>,
     fileCount |-> full.fileCount, lastSync |-> full.lastSync]

\* lines 511-515: the full pass failed and its failure is always returned
AfterFullFailure_FullOnly(critical, full) == full

\* lines 511-515: the full pass failed
AfterFullFailure(critical, full) == IF critical.success THEN critical ELSE full

\* line 500 never taken: the full pass is always run
TooLateForFull_Never(remaining) == FALSE

\* line 500: remainingTime < 5000
TooLateForFull(remaining) == remaining < MIN_FULL_SYNC_BUDGET_MS

\* a response that reports the sync as successful whatever it was
RestartResponse_SyncOk(result) ==
    [success |-> TRUE, syncResult |-> [success |-> TRUE, error |-> ""],
     message |-> "Container restart initiated"]

\* process.ts lines 332-336: what restartContainer returns
RestartResponse(result) ==
    [success |-> TRUE, syncResult |-> result, message |-> "Container restart initiated"]

NoRestartResponse ==
    [success |-> FALSE, syncResult |-> [success |-> FALSE, error |-> "(pending)"],
     message |-> "(pending)"]

InitShutdown ==
    /\ spc = "idle"
    /\ timeoutMs = 0
    /\ startTime = 0
    /\ remainingTime = 0
    /\ criticalResult = NoShutdownResult
    /\ fullResult = NoShutdownResult
    /\ shutdownResult = NoShutdownResult
    /\ rpos = "idle"
    /\ syncResult = [success |-> TRUE, error |-> ""]
    /\ killsIssued = FALSE
    /\ restartReturned = NoRestartResponse
    /\ wakeCaller = NoCall

\* lines 463-487: syncBeforeShutdown begins and calls syncCriticalFilesToR2,
\* which runs up to its first await
SyncBeforeShutdownCall(budget, t, r2Configured) ==
    /\ spc = "idle"
    /\ SHUTDOWN_SYNC
    /\ spc' = "critical"
    /\ timeoutMs' = budget
    /\ startTime' = now
    /\ SyncCriticalFilesToR2Call(CriticalCall, t, r2Configured)
    /\ UNCHANGED <<remainingTime, criticalResult, fullResult, shutdownResult>>

\* a call of syncBeforeShutdown without options.timeoutMs
SyncBeforeShutdown(t, r2Configured) ==
    /\ rpos = "idle"
    /\ SyncBeforeShutdownCall(DEFAULT_SHUTDOWN_TIMEOUT_MS, t, r2Configured)
    /\ UNCHANGED <<rpos, syncResult, killsIssued, restartReturned,
                   wakeCaller>>
    /\ UNCHANGED <<gatewayVars, retryVars, pathVars, eventVars>>

\* process.ts lines 260-281: restartContainer begins and calls
\* syncBeforeShutdown with timeoutMs: 30000
RestartContainer(t, r2Configured) ==
    /\ rpos = "idle"
    /\ rpos' = "sync"
    /\ SyncBeforeShutdownCall(RESTART_SYNC_TIMEOUT_MS, t, r2Configured)
    /\ UNCHANGED <<syncResult, killsIssued, restartReturned,
                   wakeCaller>>
    /\ UNCHANGED <<gatewayVars, retryVars, pathVars, eventVars>>

\* lines 489-504: the critical pass has returned; with less than 5 s left its
\* result is returned, otherwise syncToR2 is called (and runs up to its first
\* await). A critical pass that threw rejects syncBeforeShutdown.
ShutdownAfterCritical ==
    /\ spc = "critical"
    /\ pc[CriticalCall] = "done"
    /\ IF ret[CriticalCall] = Thrown
       THEN /\ spc' = "threw"
            /\ UNCHANGED <<remainingTime, criticalResult, shutdownResult>>
            /\ UNCHANGED <<syncVars, faults>>
       ELSE LET remaining == timeoutMs - (now - startTime) * TickMs
            IN  /\ criticalResult' = ReturnedBy(CriticalCall)
                /\ remainingTime' = remaining
                /\ IF TooLateForFull(remaining)
                   THEN /\ shutdownResult' = ReturnedBy(CriticalCall)
                        /\ spc' = "returned"
                        /\ UNCHANGED <<syncVars, faults>>
                   ELSE /\ spc' = "full"
                        /\ SyncToR2Call(FullCall, tenant[CriticalCall],
                              ret[CriticalCall].error # "R2 storage is not configured")
                        /\ UNCHANGED shutdownResult
    /\ UNCHANGED <<timeoutMs, startTime, fullResult, rpos, syncResult, killsIssued,
                   restartReturned,
                   wakeCaller>>
    /\ UNCHANGED <<gatewayVars, retryVars, pathVars, eventVars>>

\* lines 506-528: the full pass has returned; a full pass that threw rejects
\* syncBeforeShutdown
ShutdownAfterFull ==
    /\ spc = "full"
    /\ pc[FullCall] = "done"
    /\ IF ret[FullCall] = Thrown
       THEN /\ spc' = "threw"
            /\ UNCHANGED <<fullResult, shutdownResult>>
       ELSE /\ fullResult' = ReturnedBy(FullCall)
            /\ shutdownResult' =
                  IF ~ret[FullCall].success
                  THEN AfterFullFailure(criticalResult, ReturnedBy(FullCall))
                  ELSE Combined(criticalResult, ReturnedBy(FullCall))
            /\ spc' = "returned"
    /\ UNCHANGED <<timeoutMs, startTime, remainingTime, criticalResult, rpos,
                   syncResult, killsIssued, restartReturned,
                   wakeCaller>>
    /\ UNCHANGED <<syncVars, gatewayVars, retryVars, pathVars, eventVars, faults>>

\* process.ts line 275 without the await
SyncSettled_NotAwaited == TRUE

\* process.ts line 275: await syncBeforeShutdown(...) has returned or thrown
SyncSettled == spc \in {"returned", "threw"}

\* process.ts lines 275-298: syncResult keeps success and error of the result,
\* or the message of what was thrown
RestartAfterSync ==
    /\ rpos = "sync"
    /\ SyncSettled
    /\ syncResult' = IF spc = "returned"
                     THEN [success |-> shutdownResult.success,
                           error |-> shutdownResult.error]
                     ELSE [success |-> FALSE, error |-> "(thrown)"]
    /\ rpos' = "kill"
    /\ UNCHANGED <<spc, timeoutMs, startTime, remainingTime, criticalResult,
                   fullResult, shutdownResult, killsIssued, restartReturned,
                   wakeCaller>>
    /\ UNCHANGED <<syncVars, gatewayVars, retryVars, pathVars, eventVars, faults>>

\* process.ts lines 266 and 89: r2Prefix `users/${userId}` and sandboxName
\* `openclaw-${userId}` of one user
SandboxOf(t) == IF t = "users/a" THEN "openclaw-a" ELSE "openclaw-b"

\* the processes of the model: the copy command of a sync call, the gateway
\* process a doEnsureMoltbotGateway run started
KillTargets == ({"copy"} \X Calls) \cup ({"gateway"} \X Callers)

\* process.ts line 304: what sandbox.listProcesses() gives in the sandbox of
\* tenant t: its copy commands that are still running and its gateway processes
ListedProcesses(t) ==
    {<<"copy", c>> : c \in RunningCopies(t)}
    \cup {<<"gateway", p>> : p \in {q \in Callers : /\ sandboxName[q] = SandboxOf(t)
                                                    /\ process[q] \in {"starting", "running"}}}

\* a kill that throws ends the loop (the failing process is listed first)
KillLoop_StopsAtFailure(listed, failing) == IF failing = {} THEN listed ELSE {}

\* process.ts lines 307-314: proc.kill() of every listed process, each inside
\* its own try; failing: the processes whose kill throws
KillLoop(listed, failing) == listed \ failing

\* process.ts lines 303-321: listProcesses and proc.kill() of every process,
\* a copy that is still running and the gateway included; failures are only
\* logged. listThrows: listProcesses threw; failing: the process whose kill
\* throws, if any
RestartKill(listThrows, failing) ==
    /\ rpos = "kill"
    /\ rpos' = "start"
    /\ failing \subseteq ListedProcesses(tenant[CriticalCall])
    /\ Cardinality(failing) <= 1
    /\ listThrows => failing = {}
    /\ killsIssued' = ~listThrows
    /\ LET killed == IF listThrows THEN {}
                     ELSE KillLoop(ListedProcesses(tenant[CriticalCall]), failing)
       IN  /\ copyProc' = [c \in Calls |->
                              IF <<"copy", c>> \in killed THEN "killed" ELSE copyProc[c]]
           /\ process' = [p \in Callers |->
                             IF <<"gateway", p>> \in killed THEN "killed" ELSE process[p]]
    /\ Faulty(listThrows \/ failing # {})
    /\ UNCHANGED <<now, syncLocks, slotHolder, recentSyncResults, lastSync,
                   lastSyncCritical, pc, kind, syncCmdRun, criticalCmdRun, tenant,
                   copyStart, sourceSeen, exitSeen, markerSeen, ret>>
    /\ UNCHANGED <<spc, timeoutMs, startTime, remainingTime, criticalResult,
                   fullResult, shutdownResult, syncResult, restartReturned,
                   wakeCaller>>
    /\ UNCHANGED <<startupLocks, gpc, sandboxName, awaited, startup, existingProcess,
                   cleanup, arrival>>
    /\ UNCHANGED <<retryVars, pathVars, eventVars>>

\* ------------------------------------------------------------------------
\* ensureMoltbotGateway (process.ts)
\* ------------------------------------------------------------------------
InitGateway ==
    /\ startupLocks = [n \in SandboxNames |-> NoCall]
    /\ gpc = [g \in Callers |-> "idle"]
    /\ sandboxName = [g \in Callers |-> "openclaw-a"]
    /\ awaited = [g \in Callers |-> NoCall]
    /\ startup = [g \in Callers |-> "none"]
    /\ existingProcess = [g \in Callers |-> NoCall]
    /\ process = [g \in Callers |-> "none"]
    /\ cleanup = [g \in Callers |-> "none"]
    /\ arrival = [g \in Callers |-> "none"]

\* a doEnsureMoltbotGateway run that has neither returned nor thrown
StartupInFlight(a) ==
    startup[a] \in {"mount", "find", "waitExisting", "killExisting", "start", "waitPort"}

\* lines 104-105: startupPromise = doEnsureMoltbotGateway(...), which runs up to
\* its first await (mountR2Storage), then startupLocks.set(sandboxName, promise)
NewStartup(g, n, position) ==
    /\ startup' = [startup EXCEPT ![g] = "mount"]
    /\ startupLocks' = [startupLocks EXCEPT ![n] = g]
    /\ awaited' = [awaited EXCEPT ![g] = g]
    /\ gpc' = [gpc EXCEPT ![g] = position]

\* lines 89-105: a caller arrives; it awaits the startup in the Map when there
\* is one, and creates its own otherwise
EnsureMoltbotGatewayCall(g, n) ==
    /\ gpc[g] = "idle" /\ \A h \in Callers : h < g => gpc[h] # "idle"
    /\ g = 1 => n = "openclaw-a"
    /\ sandboxName' = [sandboxName EXCEPT ![g] = n]
    /\ IF startupLocks[n] # NoCall
       THEN /\ awaited' = [awaited EXCEPT ![g] = startupLocks[n]]
            /\ gpc' = [gpc EXCEPT ![g] = "attached"]
            /\ UNCHANGED <<startup, startupLocks>>
       ELSE NewStartup(g, n, "own")
    /\ arrival' = [arrival EXCEPT ![g] =
                      IF startupLocks[n] = NoCall THEN "first"
                      ELSE IF StartupInFlight(startupLocks[n]) THEN "inflight"
                      ELSE IF startup[startupLocks[n]] = "hung" THEN "hung"
                      ELSE "cooldown"]
    /\ UNCHANGED <<existingProcess, process, cleanup>>

\* a request that needs the gateway calls ensureMoltbotGateway
EnsureMoltbotGateway(g, n) ==
    /\ EnsureMoltbotGatewayCall(g, n)
    /\ UNCHANGED <<syncVars, retryVars, pathVars, eventVars, shutdownVars, faults>>

\* lines 95-105: the awaited startup settles: its result is returned, or its
\* failure is caught and the caller creates a startup of its own
AwaitExistingStartup(g) ==
    /\ gpc[g] = "attached"
    /\ startup[awaited[g]] \in {"resolved", "rejected"}
    /\ IF startup[awaited[g]] = "resolved"
       THEN /\ gpc' = [gpc EXCEPT ![g] = "returned"]
            /\ UNCHANGED <<startup, startupLocks, awaited>>
       ELSE NewStartup(g, sandboxName[g], "ownAfterFailure")
    /\ UNCHANGED <<sandboxName, existingProcess, process, cleanup, arrival, faults>>
    /\ UNCHANGED <<syncVars, retryVars, pathVars, eventVars, shutdownVars>>

\* lines 107-118: the caller's own startup settles; the finally block arms the
\* 5 s timer
AwaitStartupPromise(g) ==
    /\ gpc[g] \in {"own", "ownAfterFailure"}
    /\ startup[g] \in {"resolved", "rejected"}
    /\ gpc' = [gpc EXCEPT ![g] = IF startup[g] = "resolved" THEN "returned" ELSE "threw"]
    /\ cleanup' = [cleanup EXCEPT ![g] = "armed"]
    /\ UNCHANGED <<startupLocks, sandboxName, awaited, startup, existingProcess,
                   process, syncVars, retryVars, pathVars, eventVars, shutdownVars, arrival, faults>>

\* the timer deletes the entry whatever it holds
CleanedLocks_Unconditional(g) == [startupLocks EXCEPT ![sandboxName[g]] = NoCall]

\* lines 114-116: if (startupLocks.get(sandboxName) === startupPromise)
\* startupLocks.delete(sandboxName)
CleanedLocks(g) ==
    IF startupLocks[sandboxName[g]] = g
    THEN [startupLocks EXCEPT ![sandboxName[g]] = NoCall]
    ELSE startupLocks

\* lines 113-117: the timer fires: the entry is deleted if it is still this
\* caller's promise
StartupCleanup(g) ==
    /\ cleanup[g] = "armed"
    /\ cleanup' = [cleanup EXCEPT ![g] = "fired"]
    /\ startupLocks' = CleanedLocks(g)
    /\ UNCHANGED <<gpc, sandboxName, awaited, startup, existingProcess, process,
                   syncVars, retryVars, pathVars, eventVars, shutdownVars, arrival, faults>>

\* line 127: await mountR2Storage(sandbox, env), outside any try; the R2
\* registration that follows swallows its errors
DoEnsureMount(a, throws) ==
    /\ startup[a] = "mount"
    /\ startup' = [startup EXCEPT ![a] = IF throws THEN "rejected" ELSE "find"]
    /\ Faulty(throws)
    /\ UNCHANGED <<startupLocks, gpc, sandboxName, awaited, existingProcess, process,
                   cleanup, syncVars, retryVars, pathVars, eventVars, shutdownVars, arrival>>

\* lines 52-66: the processes findExistingMoltbotProcess accepts: a gateway
\* command ('/usr/local/bin/start-moltbot.sh') in status starting or running
GatewayProcesses(n) ==
    {p \in Callers : sandboxName[p] = n /\ process[p] \in {"starting", "running"}}

\* lines 147-148 with 47-72: findExistingMoltbotProcess; a failing listProcesses
\* is caught and gives null
FindExistingMoltbotProcess(a, p, listFails) ==
    /\ startup[a] = "find"
    /\ IF listFails \/ GatewayProcesses(sandboxName[a]) = {}
       THEN /\ p = NoCall
            /\ startup' = [startup EXCEPT ![a] = "start"]
            /\ UNCHANGED existingProcess
       ELSE /\ p \in GatewayProcesses(sandboxName[a])
            /\ existingProcess' = [existingProcess EXCEPT ![a] = p]
            /\ startup' = [startup EXCEPT ![a] = "waitExisting"]
    /\ Faulty(listFails)
    /\ UNCHANGED <<startupLocks, gpc, sandboxName, awaited, process, cleanup, arrival>>
    /\ UNCHANGED <<syncVars, retryVars, pathVars, eventVars, shutdownVars>>

\* lines 154-159: existingProcess.waitForPort; reachable: the port answered
\* within STARTUP_TIMEOUT_MS
WaitExistingPort(a, reachable) ==
    /\ startup[a] = "waitExisting"
    /\ reachable => process[existingProcess[a]] = "running"
    /\ startup' = [startup EXCEPT ![a] = IF reachable THEN "resolved" ELSE "killExisting"]
    /\ Faulty(~reachable)
    /\ UNCHANGED <<startupLocks, gpc, sandboxName, awaited, existingProcess, process,
                   cleanup, syncVars, retryVars, pathVars, eventVars, shutdownVars, arrival>>

\* lines 162-166: existingProcess.kill(), its failure only logged
KillExisting(a, killFails) ==
    /\ startup[a] = "killExisting"
    /\ process' = IF killFails THEN process
                  ELSE [process EXCEPT ![existingProcess[a]] = "killed"]
    /\ startup' = [startup EXCEPT ![a] = "start"]
    /\ Faulty(killFails)
    /\ UNCHANGED <<startupLocks, gpc, sandboxName, awaited, existingProcess, cleanup,
                   syncVars, retryVars, pathVars, eventVars, shutdownVars, arrival>>

\* lines 170-216: token and secrets, then sandbox.startProcess(command)
StartGatewayProcess(a, startFails) ==
    /\ startup[a] = "start"
    /\ IF startFails
       THEN /\ startup' = [startup EXCEPT ![a] = "rejected"]
            /\ UNCHANGED process
       ELSE /\ process' = [process EXCEPT ![a] = "starting"]
            /\ startup' = [startup EXCEPT ![a] = "waitPort"]
    /\ Faulty(startFails)
    /\ UNCHANGED <<startupLocks, gpc, sandboxName, awaited, existingProcess, cleanup,
                   syncVars, retryVars, pathVars, eventVars, shutdownVars, arrival>>

\* lines 219-243: process.waitForPort; a failure is rethrown
WaitForPort(a, reachable) ==
    /\ startup[a] = "waitPort"
    /\ reachable => process[a] = "running"
    /\ startup' = [startup EXCEPT ![a] = IF reachable THEN "resolved" ELSE "rejected"]
    /\ Faulty(~reachable)
    /\ UNCHANGED <<startupLocks, gpc, sandboxName, awaited, existingProcess, process,
                   cleanup, syncVars, retryVars, pathVars, eventVars, shutdownVars, arrival>>

\* an await of doEnsureMoltbotGateway that has no timeout of its own
\* (mountR2Storage, listProcesses, startProcess, ...) never settles: the
\* startup promise stays pending
StartupHangs(a) ==
    /\ StartupInFlight(a)
    /\ startup' = [startup EXCEPT ![a] = "hung"]
    /\ Faulty(TRUE)
    /\ UNCHANGED <<startupLocks, gpc, sandboxName, awaited, existingProcess, process,
                   cleanup, syncVars, retryVars, pathVars, eventVars, shutdownVars, arrival>>

\* the start script brings the gateway up: its port answers
GatewayBoots(p) ==
    /\ process[p] = "starting"
    /\ process' = [process EXCEPT ![p] = "running"]
    /\ UNCHANGED <<startupLocks, gpc, sandboxName, awaited, startup, existingProcess,
                   cleanup, syncVars, retryVars, pathVars, eventVars, shutdownVars, arrival, faults>>

NextGateway ==
    \/ \E g \in Callers, n \in SandboxNames : EnsureMoltbotGateway(g, n)
    \/ \E g \in Callers : AwaitExistingStartup(g)
    \/ \E g \in Callers : AwaitStartupPromise(g)
    \/ \E g \in Callers : StartupCleanup(g)
    \/ \E a \in Callers, f \in BOOLEAN : DoEnsureMount(a, f)
    \/ \E a \in Callers, p \in Callers \cup {NoCall}, f \in BOOLEAN :
          FindExistingMoltbotProcess(a, p, f)
    \/ \E a \in Callers, r \in BOOLEAN : WaitExistingPort(a, r)
    \/ \E a \in Callers, f \in BOOLEAN : KillExisting(a, f)
    \/ \E a \in Callers, f \in BOOLEAN : StartGatewayProcess(a, f)
    \/ \E a \in Callers, r \in BOOLEAN : WaitForPort(a, r)
    \/ \E a \in Callers : StartupHangs(a)
    \/ \E p \in Callers : GatewayBoots(p)

\* ------------------------------------------------------------------------
\* restartContainer (process.ts), step 3
\* ------------------------------------------------------------------------
\* process.ts lines 323-336: ensureMoltbotGateway is called and runs up to its
\* first await; its promise gets a catch handler and is not awaited, and
\* restartContainer returns. An async function does not throw to its caller, so
\* the catch block of lines 337-346 is never entered.
RestartStartGateway(g) ==
    /\ rpos = "start"
    /\ EnsureMoltbotGatewayCall(g, SandboxOf(tenant[CriticalCall]))
    /\ wakeCaller' = g
    /\ rpos' = "done"
    /\ restartReturned' = RestartResponse(syncResult)
    /\ UNCHANGED <<spc, timeoutMs, startTime, remainingTime, criticalResult,
                   fullResult, shutdownResult, syncResult, killsIssued>>
    /\ UNCHANGED <<syncVars, retryVars, pathVars, eventVars, faults>>

NextShutdown ==
    \/ \E t \in Tenants, b \in BOOLEAN : SyncBeforeShutdown(t, b)
    \/ \E t \in Tenants, b \in BOOLEAN : RestartContainer(t, b)
    \/ ShutdownAfterCritical
    \/ ShutdownAfterFull
    \/ RestartAfterSync
    \/ \E l \in BOOLEAN, k \in SUBSET KillTargets : RestartKill(l, k)
    \/ \E g \in Callers : RestartStartGateway(g)
    \/ \E c \in Calls, o \in MountOutcomes : DoSyncMount(c, o)
    \/ \E c \in Calls, s \in ConfigStates, f \in BOOLEAN, i \in BOOLEAN :
          DoSyncValidate(c, s, f, i)
    \/ \E c \in Calls, f \in BOOLEAN : DoSyncPileupCheck(c, f)
    \/ \E c \in Calls, f \in BOOLEAN : DoSyncStartCopy(c, f)
    \/ \E c \in Calls, e, x \in RsyncExitCodes, w \in BOOLEAN : RunSyncCmd(c, e, x, w)
    \/ \E c \in Calls, code \in RsyncExitCodes, f \in BOOLEAN : DoSyncWaitCopy(c, code, f)
    \/ \E c \in Calls, f \in BOOLEAN, e \in BOOLEAN, l \in BOOLEAN :
          DoSyncVerify(c, f, e, l)
    \/ \E c \in Calls : SyncRelease(c)
    \/ \E c \in Calls, o \in MountOutcomes : CriticalMount(c, o)
    \/ \E c \in Calls, f \in BOOLEAN : CriticalStartCopy(c, f)
    \/ \E c \in Calls, s \in CriticalSources, f \in BOOLEAN, w \in BOOLEAN :
          RunCriticalCmd(c, s, f, w)
    \/ \E c \in Calls, f \in BOOLEAN : CriticalWaitCopy(c, f)
    \/ \E c \in Calls, f \in BOOLEAN, e \in BOOLEAN : CriticalVerify(c, f, e)
    \/ Tick

\* one other request calls ensureMoltbotGateway, before, during or after the
\* restart
ConcurrentEnsureMoltbotGateway(g, n) ==
    /\ \A h \in Callers : h # g => (gpc[h] = "idle" \/ h = wakeCaller)
    /\ EnsureMoltbotGateway(g, n)

\* restartContainer together with the startup it leaves running
NextRestart ==
    \/ \E t \in Tenants, b \in BOOLEAN : RestartContainer(t, b)
    \/ ShutdownAfterCritical
    \/ ShutdownAfterFull
    \/ RestartAfterSync
    \/ \E l \in BOOLEAN, k \in SUBSET KillTargets : RestartKill(l, k)
    \/ \E g \in Callers : RestartStartGateway(g)
    \/ \E c \in Calls, o \in MountOutcomes : DoSyncMount(c, o)
    \/ \E c \in Calls, s \in ConfigStates, f \in BOOLEAN, i \in BOOLEAN :
          DoSyncValidate(c, s, f, i)
    \/ \E c \in Calls, f \in BOOLEAN : DoSyncPileupCheck(c, f)
    \/ \E c \in Calls, f \in BOOLEAN : DoSyncStartCopy(c, f)
    \/ \E c \in Calls, e, x \in RsyncExitCodes, w \in BOOLEAN : RunSyncCmd(c, e, x, w)
    \/ \E c \in Calls, code \in RsyncExitCodes, f \in BOOLEAN : DoSyncWaitCopy(c, code, f)
    \/ \E c \in Calls, f \in BOOLEAN, e \in BOOLEAN, l \in BOOLEAN :
          DoSyncVerify(c, f, e, l)
    \/ \E c \in Calls : SyncRelease(c)
    \/ \E c \in Calls, o \in MountOutcomes : CriticalMount(c, o)
    \/ \E c \in Calls, f \in BOOLEAN : CriticalStartCopy(c, f)
    \/ \E c \in Calls, s \in CriticalSources, f \in BOOLEAN, w \in BOOLEAN :
          RunCriticalCmd(c, s, f, w)
    \/ \E c \in Calls, f \in BOOLEAN : CriticalWaitCopy(c, f)
    \/ \E c \in Calls, f \in BOOLEAN, e \in BOOLEAN : CriticalVerify(c, f, e)
    \/ Tick
    \/ \E g \in Callers, n \in SandboxNames : ConcurrentEnsureMoltbotGateway(g, n)
    \/ \E g \in Callers : AwaitExistingStartup(g)
    \/ \E g \in Callers : AwaitStartupPromise(g)
    \/ \E g \in Callers : StartupCleanup(g)
    \/ \E a \in Callers, f \in BOOLEAN : DoEnsureMount(a, f)
    \/ \E a \in Callers, p \in Callers \cup {NoCall}, f \in BOOLEAN :
          FindExistingMoltbotProcess(a, p, f)
    \/ \E a \in Callers, r \in BOOLEAN : WaitExistingPort(a, r)
    \/ \E a \in Callers, f \in BOOLEAN : KillExisting(a, f)
    \/ \E a \in Callers, f \in BOOLEAN : StartGatewayProcess(a, f)
    \/ \E a \in Callers, r \in BOOLEAN : WaitForPort(a, r)
    \/ \E a \in Callers : StartupHangs(a)
    \/ \E p \in Callers : GatewayBoots(p)

\* ------------------------------------------------------------------------
\* The two keyed registries: syncLocks with recentSyncResults (sync.ts) and
\* startupLocks (process.ts). The two modules share no state, so a behaviour
\* is followed in one of them at a time: calls of sync.ts begin only while no
\* ensureMoltbotGateway call has begun, and the other way round.
\* ------------------------------------------------------------------------
SyncQuiet == \A c \in Calls : pc[c] = "idle"
GatewayQuiet == \A g \in Callers : gpc[g] = "idle"

SyncToR2Alone(c, t, r2Configured) == GatewayQuiet /\ SyncToR2(c, t, r2Configured)

SyncCriticalFilesToR2Alone(c, t, r2Configured) ==
    GatewayQuiet /\ SyncCriticalFilesToR2(c, t, r2Configured)

EnsureMoltbotGatewayAlone(g, n) == SyncQuiet /\ EnsureMoltbotGateway(g, n)

NextTenants ==
    \/ \E c \in Calls, t \in Tenants, b \in BOOLEAN : SyncToR2Alone(c, t, b)
    \/ \E c \in Calls, t \in Tenants, b \in BOOLEAN : SyncCriticalFilesToR2Alone(c, t, b)
    \/ \E c \in Calls, o \in MountOutcomes : DoSyncMount(c, o)
    \/ \E c \in Calls, s \in ConfigStates, f \in BOOLEAN, i \in BOOLEAN :
          DoSyncValidate(c, s, f, i)
    \/ \E c \in Calls, f \in BOOLEAN : DoSyncPileupCheck(c, f)
    \/ \E c \in Calls, f \in BOOLEAN : DoSyncStartCopy(c, f)
    \/ \E c \in Calls, e, x \in RsyncExitCodes, w \in BOOLEAN : RunSyncCmd(c, e, x, w)
    \/ \E c \in Calls, code \in RsyncExitCodes, f \in BOOLEAN : DoSyncWaitCopy(c, code, f)
    \/ \E c \in Calls, f \in BOOLEAN, e \in BOOLEAN, l \in BOOLEAN :
          DoSyncVerify(c, f, e, l)
    \/ \E c \in Calls : SyncRelease(c)
    \/ \E c \in Calls, o \in MountOutcomes : CriticalMount(c, o)
    \/ \E c \in Calls, f \in BOOLEAN : CriticalStartCopy(c, f)
    \/ \E c \in Calls, s \in CriticalSources, f \in BOOLEAN, w \in BOOLEAN :
          RunCriticalCmd(c, s, f, w)
    \/ \E c \in Calls, f \in BOOLEAN : CriticalWaitCopy(c, f)
    \/ \E c \in Calls, f \in BOOLEAN, e \in BOOLEAN : CriticalVerify(c, f, e)
    \/ Tick
    \/ \E g \in Callers, n \in SandboxNames : EnsureMoltbotGatewayAlone(g, n)
    \/ \E g \in Callers : AwaitExistingStartup(g)
    \/ \E g \in Callers : AwaitStartupPromise(g)
    \/ \E g \in Callers : StartupCleanup(g)
    \/ \E a \in Callers, f \in BOOLEAN : DoEnsureMount(a, f)
    \/ \E a \in Callers, p \in Callers \cup {NoCall}, f \in BOOLEAN :
          FindExistingMoltbotProcess(a, p, f)
    \/ \E a \in Callers, r \in BOOLEAN : WaitExistingPort(a, r)
    \/ \E a \in Callers, f \in BOOLEAN : KillExisting(a, f)
    \/ \E a \in Callers, f \in BOOLEAN : StartGatewayProcess(a, f)
    \/ \E a \in Callers, r \in BOOLEAN : WaitForPort(a, r)
    \/ \E a \in Callers : StartupHangs(a)
    \/ \E p \in Callers : GatewayBoots(p)

\* ------------------------------------------------------------------------
\* withWakeAndRetry, wakeContainer, checkContainerHealth, isRetryableError
\* (admin routes)
\* ------------------------------------------------------------------------
NoError == ""

\* String.prototype.toLowerCase, one character
LowerChar(ch) ==
    CASE ch = "A" -> "a" [] ch = "B" -> "b" [] ch = "C" -> "c" [] ch = "D" -> "d"
      [] ch = "E" -> "e" [] ch = "F" -> "f" [] ch = "G" -> "g" [] ch = "H" -> "h"
      [] ch = "I" -> "i" [] ch = "J" -> "j" [] ch = "K" -> "k" [] ch = "L" -> "l"
      [] ch = "M" -> "m" [] ch = "N" -> "n" [] ch = "O" -> "o" [] ch = "P" -> "p"
      [] ch = "Q" -> "q" [] ch = "R" -> "r" [] ch = "S" -> "s" [] ch = "T" -> "t"
      [] ch = "U" -> "u" [] ch = "V" -> "v" [] ch = "W" -> "w" [] ch = "X" -> "x"
      [] ch = "Y" -> "y" [] ch = "Z" -> "z" [] OTHER -> ch

RECURSIVE toLowerCase(_)
toLowerCase(s) ==
    IF Len(s) = 0 THEN ""
    ELSE LowerChar(SubSeq(s, 1, 1)) \o toLowerCase(SubSeq(s, 2, Len(s)))

\* String.prototype.includes
includes(s, t) ==
    \E i \in 1..(Len(s) - Len(t) + 1) : SubSeq(s, i, i + Len(t) - 1) = t

\* lines 62-74
retryableMessages ==
    {"timeout", "hibernating", "not ready", "connection refused",
     "sandbox_not_found", "instanceGetTimeout", "portReadyTimeout",
     "ECONNREFUSED", "ETIMEDOUT", "gateway failed to start", "process not found"}

\* lines 61-78: a substring match on the lower-cased message
isRetryableError(message) ==
    \E lowered \in {toLowerCase(message)} :
        \E m \in retryableMessages : includes(lowered, toLowerCase(m))

\* messages of the errors the sandbox calls and the operation throw
ThrownMessages == {"connect ECONNREFUSED", "Invalid command"}

\* lines 164-167: the error of a wake that ran out of time
WakeTimeoutMessage(last) ==
    "Container failed to become ready within 120000ms. Last error: "
        \o (IF last = NoError THEN "None" ELSE last)

\* what sandbox.listProcesses() gives
Processes ==
    (IF gatewayStatus = "none" THEN {}
     ELSE {[command |-> "clawdbot gateway", status |-> gatewayStatus]})
    \cup
    (IF otherProcesses
     THEN {[command |-> "/usr/local/bin/start-moltbot.sh", status |-> "running"]}
     ELSE {})

\* process.ts lines 51-63: the commands findExistingMoltbotProcess takes for the
\* gateway process
isGatewayProcess(command) ==
    /\ \/ includes(command, "start-moltbot.sh")
       \/ includes(command, "openclaw gateway")
       \/ includes(command, "clawdbot gateway")
    /\ ~ \/ includes(command, "openclaw devices")
         \/ includes(command, "openclaw --version")
         \/ includes(command, "clawdbot devices")
         \/ includes(command, "clawdbot --version")

\* the listing holds the gateway process, as process.ts starts and finds it, in
\* status running
ServiceRunning(processes) ==
    \E p \in processes : isGatewayProcess(p.command) /\ p.status = "running"

\* lines 146-149 and 197-200
gatewayRunning(processes) ==
    \E p \in processes : includes(p.command, "clawdbot gateway") /\ p.status = "running"

\* lines 85-92: the try block: startProcess, the race of waitForExit(5000)
\* with the timer, getLogs and the test for the marker; "rejected" when one of
\* the awaits rejects
HealthTry(startThrows, exitedInTime, stdoutHasMarker) ==
    IF startThrows \/ ~exitedInTime THEN "rejected"
    ELSE IF stdoutHasMarker THEN "marker" ELSE "noMarker"

\* the marker is not looked at
checkContainerHealth_AnyOutput(startThrows, exitedInTime, stdoutHasMarker) ==
    HealthTry(startThrows, exitedInTime, stdoutHasMarker) # "rejected"

\* lines 83-97: checkContainerHealth; a startProcess that throws, a probe that
\* does not exit in time and logs without the marker all give false
checkContainerHealth(startThrows, exitedInTime, stdoutHasMarker) ==
    HealthTry(startThrows, exitedInTime, stdoutHasMarker) = "marker"

\* no checkContainerHealth call yet
NoProbe ==
    [called |-> FALSE, startThrows |-> FALSE, exitedInTime |-> FALSE,
     stdoutHasMarker |-> FALSE, returned |-> FALSE]

\* a checkContainerHealth call and what it returned
Probed(startThrows, exitedInTime, stdoutHasMarker) ==
    [called |-> TRUE, startThrows |-> startThrows, exitedInTime |-> exitedInTime,
     stdoutHasMarker |-> stdoutHasMarker,
     returned |-> checkContainerHealth(startThrows, exitedInTime, stdoutHasMarker)]

BACKOFF_BASE_MS == 1000
BACKOFF_CAP_MS == 5000

\* Math.min
Min(a, b) == IF a < b THEN a ELSE b

\* the delay doubles without a cap
BackoffDelay_NoCap(n) == BACKOFF_BASE_MS * 2^n

\* line 250
BackoffDelay(n) == Min(BACKOFF_BASE_MS * 2^n, BACKOFF_CAP_MS)

InitRetry ==
    /\ rpc = "idle"
    /\ attempt = 0
    /\ retryAttempts = 0
    /\ lastError = NoError
    /\ errors = <<>>
    /\ response = [from |-> "none", attempt |-> 0]
    /\ delayMs = 0
    /\ polls = 0
    /\ wakeLastError = NoError
    /\ gatewayStatus = "none"
    /\ otherProcesses = FALSE
    /\ bootRequested = FALSE
    /\ firstListing = "none"
    /\ wakes = 0
    /\ readyVerified = FALSE
    /\ operations = 0
    /\ probe = NoProbe

\* lines 244-247 without the break: every caught error is backed off and retried
Caught_AlwaysBackoff(error) ==
    /\ lastError' = error
    /\ errors' = Append(errors, error)
    /\ delayMs' = BackoffDelay(attempt)
    /\ rpc' = "backoff"

\* lines 240-253: the catch block of one attempt; a non-retryable error breaks
\* out of the loop, a retryable one sleeps for the backoff delay
Caught(error) ==
    /\ lastError' = error
    /\ errors' = Append(errors, error)
    /\ IF isRetryableError(error)
       THEN /\ delayMs' = BackoffDelay(attempt)
            /\ rpc' = "backoff"
       ELSE /\ rpc' = "afterLoop"
            /\ UNCHANGED delayMs

\* lines 173-187: the call begins
WithWakeAndRetry(n) ==
    /\ rpc = "idle"
    /\ rpc' = "check"
    /\ retryAttempts' = n
    /\ attempt' = 0
    /\ UNCHANGED <<lastError, errors, response, delayMs, polls, wakeLastError,
                   gatewayStatus, otherProcesses, bootRequested, firstListing,
                   wakes, readyVerified, operations>>
    /\ probe' = NoProbe
    /\ UNCHANGED <<syncVars, gatewayVars, shutdownVars, pathVars, eventVars, faults>>

\* lines 202-226: every branch but a running gateway sets needsWake
NextAfterListing_EmptyOk(processes) ==
    IF processes = {} THEN "operation"
    ELSE IF gatewayRunning(processes) THEN "health" ELSE "wake"

\* lines 202-226: a running gateway is probed; no process, a starting gateway
\* and processes without a gateway all set needsWake
NextAfterListing(processes) ==
    IF gatewayRunning(processes) THEN "health" ELSE "wake"

\* lines 189-230: getUserSandbox and listProcesses of one attempt; a throwing
\* listProcesses is caught and sets needsWake
CheckContainerState(sandboxThrows, listThrows, error) ==
    /\ rpc = "check"
    /\ readyVerified' = FALSE
    /\ probe' = NoProbe
    /\ IF sandboxThrows
       THEN /\ Caught(error)
            /\ UNCHANGED firstListing
       ELSE /\ rpc' = IF listThrows THEN "wake" ELSE NextAfterListing(Processes)
            /\ firstListing' =
                  IF firstListing # "none" THEN firstListing
                  ELSE IF listThrows THEN "threw"
                  ELSE IF Processes = {} THEN "empty" ELSE "processes"
            /\ UNCHANGED <<lastError, errors, delayMs>>
    /\ UNCHANGED <<attempt, retryAttempts, response, polls, wakeLastError,
                   gatewayStatus, otherProcesses, bootRequested, wakes, operations>>
    /\ UNCHANGED <<syncVars, gatewayVars, shutdownVars, pathVars, eventVars, faults>>

\* lines 205-211: the probe of a gateway that is listed as running
VerifyResponsiveness(startThrows, exitedInTime, stdoutHasMarker) ==
    /\ rpc = "health"
    /\ probe' = Probed(startThrows, exitedInTime, stdoutHasMarker)
    /\ IF checkContainerHealth(startThrows, exitedInTime, stdoutHasMarker)
       THEN /\ rpc' = "operation"
            /\ readyVerified' = TRUE
       ELSE /\ rpc' = "wake"
            /\ UNCHANGED readyVerified
    /\ UNCHANGED <<attempt, retryAttempts, lastError, errors, response, delayMs,
                   polls, wakeLastError, gatewayStatus, otherProcesses,
                   bootRequested, firstListing, wakes, operations>>
    /\ UNCHANGED <<syncVars, gatewayVars, shutdownVars, pathVars, eventVars, faults>>

\* lines 233-234 with 102-125: wakeContainer begins; it kills the processes
\* the sandbox lists, a kill that throws and a listing that throws are ignored
WakeKillStale(listThrows, gatewayKilled, otherKilled) ==
    /\ rpc = "wake"
    /\ rpc' = "wakeStart"
    /\ wakes' = wakes + 1
    /\ IF listThrows
       THEN UNCHANGED <<gatewayStatus, otherProcesses>>
       ELSE /\ gatewayStatus' = IF gatewayKilled THEN "none" ELSE gatewayStatus
            /\ otherProcesses' = IF otherKilled THEN FALSE ELSE otherProcesses
    /\ UNCHANGED <<attempt, retryAttempts, lastError, errors, response, delayMs,
                   polls, wakeLastError, bootRequested, firstListing,
                   readyVerified, operations>>
    /\ probe' = NoProbe
    /\ UNCHANGED <<syncVars, gatewayVars, shutdownVars, pathVars, eventVars, faults>>

\* lines 125-139: after the 1 s sleep, getUserSandbox (outside any try) and
\* ensureMoltbotGateway, which is not awaited
WakeStartGateway(sandboxThrows, error) ==
    /\ rpc = "wakeStart"
    /\ IF sandboxThrows
       THEN /\ Caught(error)
            /\ UNCHANGED <<bootRequested, polls, wakeLastError>>
       ELSE /\ rpc' = "poll"
            /\ bootRequested' = TRUE
            /\ polls' = 0
            /\ wakeLastError' = NoError
            /\ UNCHANGED <<lastError, errors, delayMs>>
    /\ UNCHANGED <<attempt, retryAttempts, response, gatewayStatus, otherProcesses,
                   firstListing, wakes, readyVerified, operations>>
    /\ probe' = NoProbe
    /\ UNCHANGED <<syncVars, gatewayVars, shutdownVars, pathVars, eventVars, faults>>

\* lines 141-161: one iteration of the readiness loop up to the probe: sleep,
\* listProcesses; a throw is kept in lastError and polling goes on
WakePoll(listThrows, error) ==
    /\ rpc = "poll"
    /\ polls < MaxPolls
    /\ polls' = polls + 1
    /\ IF listThrows
       THEN /\ wakeLastError' = error
            /\ rpc' = "poll"
       ELSE /\ rpc' = IF gatewayRunning(Processes) THEN "pollHealth" ELSE "poll"
            /\ UNCHANGED wakeLastError
    /\ UNCHANGED <<attempt, retryAttempts, lastError, errors, response, delayMs,
                   gatewayStatus, otherProcesses, bootRequested, firstListing,
                   wakes, readyVerified, operations>>
    /\ probe' = NoProbe
    /\ UNCHANGED <<syncVars, gatewayVars, shutdownVars, pathVars, eventVars, faults>>

\* lines 151-157: the probe of the iteration; wakeContainer returns when it
\* succeeds
WakePollHealth(startThrows, exitedInTime, stdoutHasMarker) ==
    /\ rpc = "pollHealth"
    /\ probe' = Probed(startThrows, exitedInTime, stdoutHasMarker)
    /\ IF checkContainerHealth(startThrows, exitedInTime, stdoutHasMarker)
       THEN /\ rpc' = "operation"
            /\ readyVerified' = TRUE
       ELSE /\ rpc' = "poll"
            /\ UNCHANGED readyVerified
    /\ UNCHANGED <<attempt, retryAttempts, lastError, errors, response, delayMs,
                   polls, wakeLastError, gatewayStatus, otherProcesses,
                   bootRequested, firstListing, wakes, operations>>
    /\ UNCHANGED <<syncVars, gatewayVars, shutdownVars, pathVars, eventVars, faults>>

\* lines 141 and 164-167: the loop condition fails after at least one
\* iteration and wakeContainer throws
WakeDeadline ==
    /\ rpc = "poll"
    /\ polls >= 1
    /\ Caught(WakeTimeoutMessage(wakeLastError))
    /\ UNCHANGED <<attempt, retryAttempts, response, polls, wakeLastError,
                   gatewayStatus, otherProcesses, bootRequested, firstListing,
                   wakes, readyVerified, operations>>
    /\ probe' = NoProbe
    /\ UNCHANGED <<syncVars, gatewayVars, shutdownVars, pathVars, eventVars, faults>>

\* line 238: return await operation()
Operation(resolves, error) ==
    /\ rpc = "operation"
    /\ operations' = operations + 1
    /\ IF resolves
       THEN /\ rpc' = "returned"
            /\ response' = [from |-> "operation", attempt |-> attempt + 1]
            /\ UNCHANGED <<lastError, errors, delayMs>>
       ELSE /\ Caught(error)
            /\ UNCHANGED response
    /\ UNCHANGED <<attempt, retryAttempts, polls, wakeLastError, gatewayStatus,
                   otherProcesses, bootRequested, firstListing, wakes, readyVerified>>
    /\ probe' = NoProbe
    /\ UNCHANGED <<syncVars, gatewayVars, shutdownVars, pathVars, eventVars, faults>>

\* line 187: the loop condition with one attempt fewer
LoopContinues_OneFewer(i, n) == i < n - 1

\* line 187: attempt < retryAttempts
LoopContinues(i, n) == i < n

\* lines 252 and 187: the backoff sleep ends, attempt++ and the loop condition
Backoff ==
    /\ rpc = "backoff"
    /\ attempt' = attempt + 1
    /\ rpc' = IF LoopContinues(attempt + 1, retryAttempts) THEN "check" ELSE "afterLoop"
    /\ UNCHANGED <<retryAttempts, lastError, errors, response, delayMs, polls,
                   wakeLastError, gatewayStatus, otherProcesses, bootRequested,
                   firstListing, wakes, readyVerified, operations>>
    /\ probe' = NoProbe
    /\ UNCHANGED <<syncVars, gatewayVars, shutdownVars, pathVars, eventVars, faults>>

\* lines 256-262: `c` is not bound in withWakeAndRetry nor in the module, so
\* evaluating c.json throws a ReferenceError and the call rejects
AfterLoop ==
    /\ rpc = "afterLoop"
    /\ rpc' = "threw"
    /\ response' = [from |-> "ReferenceError", attempt |-> 0]
    /\ UNCHANGED <<attempt, retryAttempts, lastError, errors, delayMs, polls,
                   wakeLastError, gatewayStatus, otherProcesses, bootRequested,
                   firstListing, wakes, readyVerified, operations>>
    /\ probe' = NoProbe
    /\ UNCHANGED <<syncVars, gatewayVars, shutdownVars, pathVars, eventVars, faults>>

\* the sandbox: the gateway process is started (by the background
\* ensureMoltbotGateway or by another request), comes up, or goes away
GatewayStatusChanges(status) ==
    /\ rpc \notin {"returned", "threw"}
    /\ \/ gatewayStatus = "none" /\ status = "starting"
       \/ gatewayStatus = "starting" /\ status = "running"
       \/ gatewayStatus # "none" /\ status = "none"
    /\ gatewayStatus' = status
    /\ UNCHANGED <<rpc, attempt, retryAttempts, lastError, errors, response,
                   delayMs, polls, wakeLastError, otherProcesses, bootRequested,
                   firstListing, wakes, readyVerified, operations>>
    /\ probe' = NoProbe
    /\ UNCHANGED <<syncVars, gatewayVars, shutdownVars, pathVars, eventVars, faults>>

\* the sandbox: a process that is not the gateway starts or exits
OtherProcessChanges ==
    /\ rpc \notin {"returned", "threw"}
    /\ otherProcesses' = ~otherProcesses
    /\ UNCHANGED <<rpc, attempt, retryAttempts, lastError, errors, response,
                   delayMs, polls, wakeLastError, gatewayStatus, bootRequested,
                   firstListing, wakes, readyVerified, operations>>
    /\ probe' = NoProbe
    /\ UNCHANGED <<syncVars, gatewayVars, shutdownVars, pathVars, eventVars, faults>>

NextRetry ==
    \/ \E n \in 1..MaxRetryAttempts : WithWakeAndRetry(n)
    \/ \E s, l \in BOOLEAN, e \in ThrownMessages : CheckContainerState(s, l, e)
    \/ \E s, x, m \in BOOLEAN : VerifyResponsiveness(s, x, m)
    \/ \E l, g, o \in BOOLEAN : WakeKillStale(l, g, o)
    \/ \E s \in BOOLEAN, e \in ThrownMessages : WakeStartGateway(s, e)
    \/ \E l \in BOOLEAN, e \in ThrownMessages : WakePoll(l, e)
    \/ \E s, x, m \in BOOLEAN : WakePollHealth(s, x, m)
    \/ WakeDeadline
    \/ \E r \in BOOLEAN, e \in ThrownMessages : Operation(r, e)
    \/ Backoff
    \/ AfterLoop
    \/ \E s \in {"none", "starting", "running"} : GatewayStatusChanges(s)
    \/ OtherProcessChanges

\* options.retryAttempts of the calls whose backoff is followed up to its cap
BackoffAttempts == {1, MaxBackoffAttempts}

\* a withWakeAndRetry call with more attempts than the default, every error
\* thrown being a retryable one
NextBackoff ==
    \/ \E n \in BackoffAttempts : WithWakeAndRetry(n)
    \/ \E s, l \in BOOLEAN : CheckContainerState(s, l, "connect ECONNREFUSED")
    \/ \E s, x, m \in BOOLEAN : VerifyResponsiveness(s, x, m)
    \/ \E l, g, o \in BOOLEAN : WakeKillStale(l, g, o)
    \/ \E s \in BOOLEAN : WakeStartGateway(s, "connect ECONNREFUSED")
    \/ \E l \in BOOLEAN : WakePoll(l, "connect ECONNREFUSED")
    \/ \E s, x, m \in BOOLEAN : WakePollHealth(s, x, m)
    \/ WakeDeadline
    \/ \E r \in BOOLEAN : Operation(r, "connect ECONNREFUSED")
    \/ Backoff
    \/ AfterLoop
    \/ \E s \in {"none", "starting", "running"} : GatewayStatusChanges(s)
    \/ OtherProcessChanges

\* ------------------------------------------------------------------------
\* getPathPriority, isCriticalPath (config/backup.ts) and the files criticalCmd
\* copies (sync.ts)
\* ------------------------------------------------------------------------
\* the paths the functions are applied to: a tree, a directory, a file name
PathRoots == {"/root/.clawdbot", "/root/clawd"}
PathDirs == {"/", "/credentials/", "/Credentials/", "/channels/tg/", "/memory/",
             "/life/", "/skills/", "/scripts/", "/credentials-old/", "/logs/"}
PathFiles == {"clawdbot.json", ".registered", "config.json", "token.json",
              "notes.md", "Clawdbot.JSON", "default.txt", "channels.md"}
Paths == {r \o d \o f : r \in PathRoots, d \in PathDirs, f \in PathFiles}

\* backup.ts lines 78-88: Object.entries(PATH_PRIORITY), in insertion order
PATH_PRIORITY ==
    << <<"credentials", 100>>, <<"clawdbot.json", 90>>, <<".registered", 80>>,
       <<"channels", 70>>, <<"memory", 50>>, <<"life", 40>>, <<"skills", 30>>,
       <<"scripts", 20>>, <<"default", 10>> >>

\* PATH_PRIORITY.default
DefaultPriority == PATH_PRIORITY[9][2]

\* the table read from its last entry to its first
PriorityFrom_LastMatch(normalizedPath, i) ==
    LET hits == {j \in 1..Len(PATH_PRIORITY) :
                    includes(normalizedPath, toLowerCase(PATH_PRIORITY[j][1]))}
    IN  IF hits = {} THEN DefaultPriority
        ELSE PATH_PRIORITY[CHOOSE j \in hits : \A k \in hits : k <= j][2]

\* backup.ts lines 96-102: the loop from entry i on, then the default
RECURSIVE PriorityFrom(_, _)
PriorityFrom(normalizedPath, i) ==
    IF i > Len(PATH_PRIORITY) THEN DefaultPriority
    ELSE IF includes(normalizedPath, toLowerCase(PATH_PRIORITY[i][1]))
         THEN PATH_PRIORITY[i][2]
         ELSE PriorityFrom(normalizedPath, i + 1)

\* backup.ts lines 93-103
getPathPriority(path) == PriorityFrom(toLowerCase(path), 1)

\* the channel test without its config.json half
CriticalNormalized_AnyChannelFile(normalizedPath) ==
    \/ includes(normalizedPath, "/credentials/")
    \/ includes(normalizedPath, "clawdbot.json")
    \/ includes(normalizedPath, ".registered")
    \/ includes(normalizedPath, "/channels/")

\* backup.ts lines 112-117
CriticalNormalized(normalizedPath) ==
    \/ includes(normalizedPath, "/credentials/")
    \/ includes(normalizedPath, "clawdbot.json")
    \/ includes(normalizedPath, ".registered")
    \/ includes(normalizedPath, "/channels/") /\ includes(normalizedPath, "config.json")

\* backup.ts lines 108-118
isCriticalPath(path) == CriticalNormalized(toLowerCase(path))

\* String.prototype.startsWith
startsWith(s, t) == Len(s) >= Len(t) /\ SubSeq(s, 1, Len(t)) = t

\* sync.ts lines 396-403: the three rsync commands of criticalCmd copy the tree
\* under /root/.clawdbot/credentials/ and the two files clawdbot.json and
\* .registered of /root/.clawdbot (the file system compares names exactly)
CriticalCmdCopies(path) ==
    \/ startsWith(path, "/root/.clawdbot/credentials/")
    \/ path = "/root/.clawdbot/clawdbot.json"
    \/ path = "/root/.clawdbot/.registered"

\* a path of the configuration tree
InConfigTree(path) == startsWith(path, "/root/.clawdbot/")

InitPathResults ==
    /\ priority = 0
    /\ isCritical = FALSE
    /\ mirrored = FALSE
    /\ pathCalls = {}

\* no path is looked at
InitNoPath == filePath = "" /\ InitPathResults

\* one path is looked at
InitPaths == filePath \in Paths /\ InitPathResults

GetPathPriority ==
    /\ "getPathPriority" \notin pathCalls
    /\ priority' = getPathPriority(filePath)
    /\ pathCalls' = pathCalls \cup {"getPathPriority"}
    /\ UNCHANGED <<filePath, isCritical, mirrored>>
    /\ UNCHANGED <<syncVars, gatewayVars, retryVars, shutdownVars, eventVars, faults>>

IsCriticalPath ==
    /\ "isCriticalPath" \notin pathCalls
    /\ isCritical' = isCriticalPath(filePath)
    /\ pathCalls' = pathCalls \cup {"isCriticalPath"}
    /\ UNCHANGED <<filePath, priority, mirrored>>
    /\ UNCHANGED <<syncVars, gatewayVars, retryVars, shutdownVars, eventVars, faults>>

\* criticalCmd runs in a sandbox that holds a file at filePath
CriticalCmdRuns ==
    /\ "criticalCmd" \notin pathCalls
    /\ mirrored' = CriticalCmdCopies(filePath)
    /\ pathCalls' = pathCalls \cup {"criticalCmd"}
    /\ UNCHANGED <<filePath, priority, isCritical>>
    /\ UNCHANGED <<syncVars, gatewayVars, retryVars, shutdownVars, eventVars, faults>>

NextPaths ==
    \/ GetPathPriority
    \/ IsCriticalPath
    \/ CriticalCmdRuns

\* ------------------------------------------------------------------------
\* logEvent, getRecentEvents (events module)
\* ------------------------------------------------------------------------
MAX_BUFFER_SIZE == 100

\* Array.prototype.slice(start) with one argument
slice(array, start) ==
    LET from == IF start < 0 THEN (IF Len(array) + start < 0 THEN 0 ELSE Len(array) + start)
                ELSE (IF start > Len(array) THEN Len(array) ELSE start)
    IN  SubSeq(array, from + 1, Len(array))

\* the buffer drops its newest element when it is over its size
Buffered_DropNewest(pushed) ==
    IF Len(pushed) > MAX_BUFFER_SIZE THEN SubSeq(pushed, 1, Len(pushed) - 1) ELSE pushed

\* lines 46-48: eventBuffer.shift() when the length is over MAX_BUFFER_SIZE
Buffered(pushed) ==
    IF Len(pushed) > MAX_BUFFER_SIZE THEN Tail(pushed) ELSE pushed

InitEvents ==
    /\ eventBuffer = <<>>
    /\ logged = 0
    /\ recentLimit = -1
    /\ recentEvents = <<>>

\* lines 40-59: the event is pushed, then the buffer is cut
LogEvent ==
    /\ logged < MaxEvents
    /\ logged' = logged + 1
    /\ eventBuffer' = Buffered(Append(eventBuffer, logged + 1))
    /\ UNCHANGED <<recentLimit, recentEvents>>
    /\ UNCHANGED <<syncVars, gatewayVars, retryVars, shutdownVars, pathVars, faults>>

\* lines 64-66: eventBuffer.slice(-limit)
GetRecentEvents(limit) ==
    /\ recentLimit' = limit
    /\ recentEvents' = slice(eventBuffer, 0 - limit)
    /\ UNCHANGED <<eventBuffer, logged>>
    /\ UNCHANGED <<syncVars, gatewayVars, retryVars, shutdownVars, pathVars, faults>>

\* the limits getRecentEvents is called with: its default 50, and others
Limits == {1, 50, 100, 200}

NextEvents ==
    \/ LogEvent
    \/ \E limit \in Limits : GetRecentEvents(limit)

\* ------------------------------------------------------------------------
\* Specifications
\* ------------------------------------------------------------------------
InitOthers == InitSync /\ InitGateway /\ InitRetry /\ InitShutdown

Init == InitOthers /\ InitNoPath /\ InitEvents

\* callers of syncToR2 and syncCriticalFilesToR2
SpecSync == Init /\ [][NextSync]_vars

\* callers of ensureMoltbotGateway
SpecGateway == Init /\ [][NextGateway]_vars

\* one call of withWakeAndRetry and the sandbox it talks to
SpecRetry == Init /\ [][NextRetry]_vars
SpecBackoff == Init /\ [][NextBackoff]_vars

\* one call of syncBeforeShutdown, on its own or from restartContainer
SpecShutdown == Init /\ [][NextShutdown]_vars
SpecRestart == Init /\ [][NextRestart]_vars
SpecTenants == Init /\ [][NextTenants]_vars

\* every step the runtime can take is taken in the end: a settled await is
\* resumed, an armed timer fires
SpecRestartFair == Init /\ [][NextRestart]_vars /\ WF_vars(NextRestart)

\* the path functions applied to one path
InitOnePath == InitOthers /\ InitPaths /\ InitEvents

SpecPaths == InitOnePath /\ [][NextPaths]_vars

\* a sequence of logEvent and getRecentEvents calls
SpecEvents == Init /\ [][NextEvents]_vars

\* ------------------------------------------------------------------------
\* Properties of the replication engine
\* ------------------------------------------------------------------------
ContentionError == "Sync already in progress (lock)"

\* call c begins in this step, for tenant t
Begins(c, t) == pc[c] = "idle" /\ pc'[c] # "idle" /\ tenant'[c] = t

\* another replication of the tenant holds its slot and the slot is younger
\* than the TTL
ActiveFreshHolder(t) ==
    /\ LockHeldFresh(t)
    /\ \E d \in Calls : slotHolder[t] = d /\ tenant[d] = t
                        /\ pc[d] \notin {"idle", "done"}

\* C1: a syncToR2 or syncCriticalFilesToR2 call that begins while another
\* replication of its tenant is active with a slot younger than 60 s returns
\* the lock-contention failure at once and starts no copy process.
C1_SecondCallContention ==
    [][\A c \in Calls, t \in Tenants :
          (Begins(c, t) /\ ActiveFreshHolder(t)) =>
              /\ pc'[c] = "done"
              /\ ret'[c].error = ContentionError
              /\ copyProc'[c] = "none"]_vars

\* the copy step of doSyncToR2: from startProcess(syncCmd) to the end of the wait
MirrorInFlight(c) == kind[c] = "full" /\ pc[c] = "copy"

\* C2: at most one mirror pass of a tenant is in flight in every reachable
\* state.
C2_OneMirrorPass ==
    \A t \in Tenants :
        Cardinality({c \in Calls : tenant[c] = t /\ MirrorInFlight(c)}) <= 1

\* C4: a syncToR2 call that finds a slot of age >= 60 s takes the slot over
\* (the entry carries its own timestamp) and does not return contention.
C4_StaleSlotReclaimed ==
    [][\A c \in Calls, t \in Tenants :
          (Begins(c, t) /\ kind'[c] = "full" /\ syncLocks[t] # NoLock
             /\ LockAge(t) >= SYNC_LOCK_TIMEOUT_MS) =>
              /\ syncLocks'[t] = now
              /\ slotHolder'[t] = c
              /\ pc'[c] \in {"mount", "release"}
              /\ ret'[c].error # ContentionError]_vars

\* the first call still runs under the slot it took, and the second call has
\* taken the slot over and waits for its own copy
C4_Witness ==
    /\ tenant[1] = tenant[2] /\ kind[1] = "full" /\ kind[2] = "full"
    /\ pc[1] \in {"mount", "validate", "pileup", "startCopy", "copy", "verify"}
    /\ pc[2] = "copy"
    /\ slotHolder[tenant[2]] = 2
    /\ \A c \in Calls \ {1, 2} : pc[c] = "idle"

\* the call took the slot (it did not return contention)
Acquired(c) == kind[c] = "full" /\ ret[c].error # ContentionError

\* C5: when a syncToR2 call that took the slot finishes, whatever its outcome,
\* the tenant's slot is gone after its last step and the call does not hold it
\* afterwards; a call that returns contention leaves the slot as it is.
C5_SlotReleased ==
    /\ [](\A c \in Calls : (pc[c] = "done" /\ Acquired(c)) => slotHolder[tenant[c]] # c)
    /\ [][\A c \in Calls :
            /\ (pc[c] = "release" /\ pc'[c] = "done") => syncLocks'[tenant[c]] = NoLock
            /\ (pc[c] = "idle" /\ pc'[c] = "done" /\ kind'[c] = "full") =>
                  /\ ret'[c].error = ContentionError
                  /\ UNCHANGED <<syncLocks, slotHolder>>]_vars

\* a call whose mount threw has finished and the tenant's slot is gone
C5_Witness ==
    \E c \in Calls :
        /\ kind[c] = "full" /\ pc[c] = "done" /\ ret[c] = Thrown
        /\ syncLocks[tenant[c]] = NoLock

InvalidSources == {"missing", "unparsable", "nosections"}
SourceValidationErrors ==
    {"Sync aborted: config appears empty or invalid", "Failed to verify source config"}

\* C6: a syncToR2 call that found the primary configuration file missing,
\* unparsable or without sections returns success:false with a source
\* validation error, and such a call has started no copy command and written
\* no marker.
C6_InvalidSourceNoCopy ==
    \A c \in Calls :
        /\ (kind[c] = "full" /\ sourceSeen[c] \in InvalidSources) =>
              /\ pc[c] = "release"
              /\ ~ret[c].success
              /\ ret[c].error \in SourceValidationErrors
        /\ (kind[c] = "full" /\ ret[c].error \in SourceValidationErrors) =>
              /\ copyProc[c] = "none"
              /\ lastSync[tenant[c]] # generateSyncId(c)

C6_Witness ==
    \E c \in Calls :
        /\ kind[c] = "full" /\ sourceSeen[c] = "nosections" /\ pc[c] = "release"
        /\ ret[c].error = "Sync aborted: config appears empty or invalid"

\* C7: a syncToR2 call returns success:true only if the id it read back from
\* the marker is its own sync id; with another id read back it returns
\* success:false whatever the exit code of the copy.
C7_SuccessNeedsOwnMarker ==
    \A c \in Calls :
        (kind[c] = "full" /\ pc[c] = "release" /\ ret[c].success) =>
            markerSeen[c] = generateSyncId(c)

\* a copy that exited 0 but whose marker read back carries another id
C7_Witness ==
    \E c \in Calls :
        /\ kind[c] = "full" /\ pc[c] = "release" /\ exitSeen[c] \in {0, 24}
        /\ markerSeen[c] # generateSyncId(c)
        /\ ret[c].error = "Sync verification failed"

\* the call has read its own id back and has returned from the exit code check
PassedMarkerCheck(c) ==
    /\ kind[c] = "full" /\ pc[c] = "release"
    /\ markerSeen[c] = generateSyncId(c)

\* C8 as claimed: with a matching marker, exit codes 0 and 24 give success and
\* every other exit code gives a failure that carries the exit code.
C8_ExitCodeDecides ==
    \A c \in Calls :
        PassedMarkerCheck(c) =>
            /\ exitSeen[c] \in {0, 24} =>
                  (ret[c].success /\ ret[c].rsyncExitCode = exitSeen[c])
            /\ exitSeen[c] \notin {0, 24, NullCode} =>
                  (~ret[c].success /\ ret[c].rsyncExitCode = exitSeen[c])

\* C8 amended: with a matching marker, exit codes 0 and 24 give success and
\* every other exit code gives a failure; the failure carries the exit code
\* unless reading the copy's logs throws, and then it is the generic
\* 'Sync error' failure without an exit code.
C8_ExitCodeDecidesAmended ==
    \A c \in Calls :
        PassedMarkerCheck(c) =>
            /\ exitSeen[c] \in {0, 24} =>
                  (ret[c].success /\ ret[c].rsyncExitCode = exitSeen[c])
            /\ exitSeen[c] \notin {0, 24, NullCode} =>
                  /\ ~ret[c].success
                  /\ \/ ret[c] = Result(FALSE, "Rsync failed with exit code",
                                        generateSyncId(c), exitSeen[c])
                     \/ ret[c] = Result(FALSE, "Sync error", generateSyncId(c),
                                        NullCode)

C8_Witness ==
    /\ \E c \in Calls : PassedMarkerCheck(c) /\ exitSeen[c] = 24 /\ ret[c].success
    /\ \E c \in Calls : PassedMarkerCheck(c) /\ exitSeen[c] = 23
                        /\ ret[c].error = "Rsync failed with exit code"

\* ------------------------------------------------------------------------
\* Properties of the gateway start
\* ------------------------------------------------------------------------
\* C3: for every sandbox name at most one doEnsureMoltbotGateway run is in
\* flight, and a caller that attached to a run that then failed issues no
\* process start of its own.
C3_OneStartupInFlight ==
    /\ \A n \in SandboxNames :
          Cardinality({a \in Callers : sandboxName[a] = n /\ StartupInFlight(a)}) <= 1
    /\ \A g \in Callers : gpc[g] = "ownAfterFailure" => process[g] = "none"

\* ------------------------------------------------------------------------
\* Properties of the wake controller
\* ------------------------------------------------------------------------
\* C9: a withWakeAndRetry call whose first listing gave no process runs
\* wakeContainer, and is about to invoke the operation only in an attempt in
\* which a listing showed the gateway running and the health probe after it
\* succeeded
C9_EmptyListWakesBeforeOperation ==
    firstListing = "empty" =>
        /\ rpc \in {"operation", "returned"} => wakes >= 1 /\ readyVerified
        /\ operations > 0 => wakes >= 1

\* a call that began with an empty listing, was woken and invoked the operation
C9_Witness ==
    /\ firstListing = "empty"
    /\ wakes = 1
    /\ errors = <<>>
    /\ rpc = "returned"
    /\ operations = 1

\* C10: with retryAttempts >= 3, after attempts one and two failed with
\* retryable errors the loop goes on to attempt three, and when the operation
\* of attempt three resolves the call returns that response
C10_ThirdAttemptResult ==
    (/\ retryAttempts >= 3
     /\ Len(errors) = 2
     /\ isRetryableError(errors[1])
     /\ isRetryableError(errors[2]))
    => /\ rpc \notin {"afterLoop", "threw"}
       /\ rpc \notin {"idle", "backoff"} => attempt = 2
       /\ rpc = "returned" => response = [from |-> "operation", attempt |-> 3]

\* two retryable failures and then a resolved operation in attempt three
C10_Witness ==
    /\ retryAttempts >= 3
    /\ Len(errors) = 2
    /\ isRetryableError(errors[1])
    /\ isRetryableError(errors[2])
    /\ rpc = "returned"
    /\ operations = 3
    /\ response = [from |-> "operation", attempt |-> 3]

\* the last failed attempt ended with an error isRetryableError rejects
PermanentSeen == errors # <<>> /\ ~isRetryableError(errors[Len(errors)])

\* C11: once an attempt of withWakeAndRetry has failed with a non-retryable
\* error the loop is over: no backoff delay is computed for it, and afterwards
\* no attempt, wake or invocation of the operation happens.
C11_PermanentStopsLoop ==
    /\ [](PermanentSeen => rpc \in {"afterLoop", "threw"})
    /\ [][/\ (rpc' = "afterLoop" /\ rpc # "backoff") => delayMs' = delayMs
          /\ rpc \in {"afterLoop", "threw"} =>
                /\ rpc' \in {"afterLoop", "threw"}
                /\ wakes' = wakes
                /\ operations' = operations
                /\ delayMs' = delayMs
                /\ attempt' = attempt
                /\ errors' = errors]_vars

\* the operation of attempt one threw a permanent error with three attempts
\* allowed, and the call is over after that one invocation
C11_Witness ==
    /\ retryAttempts = 3
    /\ errors = <<"Invalid command">>
    /\ rpc = "threw"
    /\ operations = 1
    /\ attempt = 0
    /\ delayMs = 0

\* C12: a withWakeAndRetry call that has ended without a response of the
\* operation (attempts exhausted, or stopped on a permanent error) has
\* returned, not thrown, and what it returned is the service-unavailable
\* result.
C12_ExhaustedReturns503 ==
    (rpc \in {"returned", "threw"} /\ response.from # "operation") =>
        (rpc = "returned" /\ response.from = "503")

\* the errors wakeContainer throws when its poll loop ran out of time
WakeTimeouts == {WakeTimeoutMessage(e) : e \in ThrownMessages \cup {NoError}}

\* C13: the error of a wakeContainer whose poll loop ran out of time is
\* retryable, so the loop of withWakeAndRetry is left after it only when no
\* attempt remains.
C13_WakeTimeoutRetryable ==
    lastError \in WakeTimeouts =>
        /\ isRetryableError(lastError)
        /\ rpc \in {"afterLoop", "threw"} => attempt = retryAttempts

\* ------------------------------------------------------------------------
\* Properties of the gateway start: staleness and cooldown
\* ------------------------------------------------------------------------
\* C14: a caller that waits on a startup whose holder never completes is not
\* blocked forever: it has a step that lets it go on with its own attempt.
C14_HungSlotReclaimable ==
    \A g \in Callers :
        (gpc[g] = "attached" /\ startup[awaited[g]] = "hung") =>
            ENABLED AwaitExistingStartup(g)

\* C15: a caller that arrived after the startup in startupLocks had settled
\* (the cooldown) starts no startup of its own and ends with the outcome of
\* the settled one.
C15_CooldownGivesOutcome ==
    \A g \in Callers :
        arrival[g] = "cooldown" =>
            /\ startup[g] = "none"
            /\ gpc[g] \in {"attached", "returned", "threw"}
            /\ gpc[g] = "returned" => startup[awaited[g]] = "resolved"
            /\ gpc[g] = "threw" => startup[awaited[g]] = "rejected"

\* ------------------------------------------------------------------------
\* Properties of the pre-shutdown sync and the restart
\* ------------------------------------------------------------------------
\* the full pass of this syncBeforeShutdown call has returned a result
FullPassRan == fullResult # NoShutdownResult

\* C16: once the critical pass of syncBeforeShutdown has returned with less
\* than 5000 ms of the budget remaining, syncToR2 is not called and
\* syncBeforeShutdown has returned the critical pass's result, unchanged.
C16_ShortBudgetSkipsFull ==
    (criticalResult # NoShutdownResult /\ remainingTime < MIN_FULL_SYNC_BUDGET_MS) =>
        /\ spc = "returned"
        /\ pc[FullCall] = "idle"
        /\ ~FullPassRan
        /\ remainingTime = timeoutMs - (now - startTime) * TickMs
        /\ criticalResult = ReturnedBy(CriticalCall)
        /\ shutdownResult = criticalResult

\* the critical pass took a clock tick and succeeded, the budget is used up
\* and the critical result was returned without a full pass
C16_Witness ==
    /\ spc = "returned"
    /\ now > startTime
    /\ remainingTime < MIN_FULL_SYNC_BUDGET_MS
    /\ criticalResult.success
    /\ shutdownResult = criticalResult
    /\ pc[FullCall] = "idle"

\* C17: while syncBeforeShutdown waits for the copy of its full pass, that
\* wait has not lasted longer than the remaining budget it passed to syncToR2.
C17_FullWaitWithinBudget ==
    (spc = "full" /\ pc[FullCall] = "copy") =>
        (now - copyStart[FullCall]) * TickMs <= remainingTime

\* C18: when the full pass ran and failed, syncBeforeShutdown returns the
\* critical result if the critical pass succeeded and the full pass's failure
\* otherwise; when the full pass succeeded it returns success:true with the
\* full pass's fileCount and lastSync.
C18_MergedResult ==
    (spc = "returned" /\ FullPassRan) =>
        IF ~fullResult.success
        THEN /\ criticalResult.success => shutdownResult = criticalResult
             /\ ~criticalResult.success => shutdownResult = fullResult
        ELSE /\ shutdownResult.success
             /\ shutdownResult.fileCount = FullCall
             /\ shutdownResult.lastSync = FullCall

\* the critical pass succeeded, the full pass failed, and the critical result
\* was returned
C18_Witness ==
    /\ spc = "returned"
    /\ FullPassRan
    /\ ~fullResult.success
    /\ criticalResult.success
    /\ shutdownResult = criticalResult

\* C19: after a critical pass that succeeded and a full pass that failed,
\* neither syncBeforeShutdown nor restartContainer reports what they report
\* when both passes succeed: success with no error.
C19_PartialDistinct ==
    (FullPassRan /\ ~fullResult.success /\ criticalResult.success) =>
        /\ spc = "returned" => ~(shutdownResult.success /\ shutdownResult.error = "")
        /\ rpos \in {"kill", "start", "done"} =>
              ~(syncResult.success /\ syncResult.error = "")

\* C20: restartContainer has reached its kill loop, or gone beyond it, only
\* after syncBeforeShutdown has returned or thrown.
C20_SyncBeforeKill ==
    (killsIssued \/ rpos \in {"kill", "start", "done"}) => spc \in {"returned", "threw"}

\* a restart whose sync returned while the copy of the full pass was still
\* running, and whose kill loop then killed that copy
C20_Witness ==
    /\ rpos = "done"
    /\ killsIssued
    /\ spc = "returned"
    /\ copyProc[FullCall] = "killed"

\* ------------------------------------------------------------------------
\* Properties of restartContainer and its background startup
\* ------------------------------------------------------------------------
\* C21: restartContainer returns {success: true, syncResult, message} in the
\* step in which it calls ensureMoltbotGateway, while that call has neither
\* returned nor thrown; whatever the call does afterwards, the value returned
\* stays what it was.
C21_ReturnsBeforeWake ==
    /\ [][(rpos = "start" /\ rpos' = "done") =>
              /\ restartReturned' = [success |-> TRUE, syncResult |-> syncResult,
                                     message |-> "Container restart initiated"]
              /\ wakeCaller' # NoCall
              /\ gpc'[wakeCaller'] \in {"own", "attached"}]_vars
    /\ [][rpos = "done" => (rpos' = "done" /\ restartReturned' = restartReturned)]_vars

\* the startup restartContainer left behind has failed after a sync that failed
\* too, and the response still is the one returned
C21_Witness ==
    /\ rpos = "done"
    /\ gpc[wakeCaller] = "threw"
    /\ ~syncResult.success
    /\ restartReturned = [success |-> TRUE, syncResult |-> syncResult,
                          message |-> "Container restart initiated"]

\* ------------------------------------------------------------------------
\* Properties of the keyed registries
\* ------------------------------------------------------------------------
\* C22: a call is refused with 'Sync already in progress' only because of a
\* slot or a running copy of its own tenant; a step of a call leaves the slots
\* and the result history of every other tenant as they were; an
\* ensureMoltbotGateway caller attaches only to a startup of its own sandbox,
\* and startupLocks of a sandbox changes only by a caller of that sandbox.
C22_TenantsIsolated ==
    /\ [][\A c \in Calls :
             /\ (ret'[c] # ret[c] /\ ret'[c].error = "Sync already in progress (lock)")
                   => syncLocks[tenant'[c]] # NoLock
             /\ (ret'[c] # ret[c] /\ ret'[c].error = "Sync already in progress (pileup)")
                   => \E d \in Calls : d # c /\ tenant[d] = tenant[c]
                                          /\ copyProc[d] = "running"
             /\ pc'[c] # pc[c] =>
                   \A u \in Tenants \ {tenant'[c]} :
                       /\ syncLocks'[u] = syncLocks[u]
                       /\ recentSyncResults'[u] = recentSyncResults[u]
                       /\ lastSync'[u] = lastSync[u]
                       /\ lastSyncCritical'[u] = lastSyncCritical[u]]_vars
    /\ [][\A g \in Callers :
             /\ (gpc[g] = "idle" /\ gpc'[g] = "attached")
                   => /\ startupLocks[sandboxName'[g]] # NoCall
                      /\ sandboxName[awaited'[g]] = sandboxName'[g]
             /\ (gpc'[g] # gpc[g] \/ cleanup'[g] # cleanup[g]) =>
                   \A n \in SandboxNames \ {sandboxName'[g]} :
                       startupLocks'[n] = startupLocks[n]]_vars

\* while a call of tenant users/a holds its slot and waits for its copy, a
\* call of tenant users/b has taken its own slot and runs its own copy
C22_Witness ==
    /\ tenant[1] = "users/a" /\ pc[1] = "copy" /\ syncLocks["users/a"] # NoLock
    /\ tenant[2] = "users/b" /\ pc[2] = "copy" /\ syncLocks["users/b"] # NoLock
    /\ kind[1] = "full" /\ kind[2] = "full"

\* ------------------------------------------------------------------------
\* Properties of the path functions
\* ------------------------------------------------------------------------
\* C23: for a path of the configuration tree, criticalCmd copies the file
\* exactly when isCriticalPath returns true for the path.
C23_MirroredIffCritical ==
    ({"isCriticalPath", "criticalCmd"} \subseteq pathCalls /\ InConfigTree(filePath)) =>
        (mirrored <=> isCritical)

\* the patterns of the priority table and their ranks, as the claim lists them
RankedPatterns ==
    << <<"credentials", 100>>, <<"clawdbot.json", 90>>, <<".registered", 80>>,
       <<"channels", 70>>, <<"memory", 50>>, <<"life", 40>>, <<"skills", 30>>,
       <<"scripts", 20>> >>

\* C24: getPathPriority returns the priority of the first pattern, in the order
\* credentials(100), clawdbot.json(90), .registered(80), channels(70),
\* memory(50), life(40), skills(30), scripts(20), that occurs in the lower-cased
\* path, which is the highest among the patterns that occur, and 10 when none
\* occurs.
C24_FirstPatternWins ==
    "getPathPriority" \in pathCalls =>
        LET low == toLowerCase(filePath)
            hits == {j \in 1..Len(RankedPatterns) : includes(low, RankedPatterns[j][1])}
        IN  IF hits = {} THEN priority = 10
            ELSE /\ \E j \in hits : /\ \A k \in hits : j <= k
                                    /\ priority = RankedPatterns[j][2]
                 /\ \A k \in hits : priority >= RankedPatterns[k][2]

\* a path in which 'memory' comes before 'channels' got the priority of
\* 'channels'
C24_Witness ==
    /\ filePath = "/root/clawd/memory/channels.md"
    /\ "getPathPriority" \in pathCalls
    /\ priority = 70

\* C25: isCriticalPath returns true exactly when the lower-cased path contains
\* '/credentials/', or 'clawdbot.json', or '.registered', or both '/channels/'
\* and 'config.json'.
C25_CriticalExactly ==
    "isCriticalPath" \in pathCalls =>
        LET low == toLowerCase(filePath)
        IN  isCritical <=>
               \/ includes(low, "/credentials/")
               \/ includes(low, "clawdbot.json")
               \/ includes(low, ".registered")
               \/ (includes(low, "/channels/") /\ includes(low, "config.json"))

\* a channel file that is not config.json was classified as not critical
C25_Witness ==
    /\ filePath = "/root/.clawdbot/channels/tg/token.json"
    /\ "isCriticalPath" \in pathCalls
    /\ ~isCritical

\* ------------------------------------------------------------------------
\* Properties of the result history
\* ------------------------------------------------------------------------
\* C26: every call of syncToR2 or syncCriticalFilesToR2 that has returned a
\* result has exactly one entry, that result, in the history of its tenant, and
\* no history holds more than 10 results.
C26_OneEntryPerAttempt ==
    /\ \A c \in Calls :
          (pc[c] \in {"release", "done"} /\ ret[c] \notin {NoResult, Thrown}) =>
              LET history == recentSyncResults[tenant[c]]
              IN  Cardinality({i \in 1..Len(history) : history[i] = ret[c]}) = 1
    /\ \A t \in Tenants : Len(recentSyncResults[t]) <= MAX_RECENT_RESULTS

\* ------------------------------------------------------------------------
\* Properties of checkContainerHealth and of the wake decision
\* ------------------------------------------------------------------------
\* C27: a checkContainerHealth call returns to its caller, never into the catch
\* block of withWakeAndRetry; it returns true only when the probe's output has
\* the marker, and false when startProcess threw, when the probe did not exit
\* in time and when the marker is missing.
C27_HealthNeverThrows ==
    probe.called =>
        /\ rpc \in {"operation", "wake", "poll"}
        /\ probe.returned => rpc = "operation"
        /\ probe.returned => probe.stdoutHasMarker
        /\ probe.startThrows => ~probe.returned
        /\ ~probe.exitedInTime => ~probe.returned
        /\ ~probe.stdoutHasMarker => ~probe.returned

\* the startProcess of the probe threw; the probe returned false and the call
\* went on to wake the container
C27_Witness ==
    /\ probe.called
    /\ probe.startThrows
    /\ ~probe.returned
    /\ rpc = "wake"
    /\ errors = <<>>

\* C29: an attempt of withWakeAndRetry goes to the operation without waking
\* only after a successful health probe, and a first listing that holds the
\* service process in status running leads to the health probe, not to
\* wakeContainer.
C29_WakeDecision ==
    [][/\ (rpc' = "operation" /\ rpc \in {"check", "health"}) =>
              (rpc = "health" /\ probe'.called /\ probe'.returned)
       /\ (rpc = "check" /\ firstListing = "none" /\ firstListing' = "processes"
              /\ ServiceRunning(Processes)) => rpc' = "health"]_vars

\* C28: after any sequence of logEvent calls the buffer holds at most
\* MAX_BUFFER_SIZE events, they are the most recently logged ones in the order
\* they were logged (the oldest was evicted first), and getRecentEvents called
\* with a limit of at least the buffer's size returns all of them in that order.
C28_BufferKeepsLatest ==
    [][LET Latest(buffer, count) ==
               /\ Len(buffer) <= MAX_BUFFER_SIZE
               /\ Len(buffer) = (IF count < MAX_BUFFER_SIZE THEN count ELSE MAX_BUFFER_SIZE)
               /\ \A i \in 1..Len(buffer) : buffer[i] = count - Len(buffer) + i
       IN  /\ Latest(eventBuffer, logged)
           /\ Latest(eventBuffer', logged')
           /\ (logged' = logged /\ recentLimit' >= Len(eventBuffer)) =>
                  recentEvents' = eventBuffer]_vars

\* 103 events were logged, the three oldest were evicted, and getRecentEvents(200)
\* returned the hundred that are left
C28_Witness ==
    /\ logged = 103
    /\ Len(eventBuffer) = MAX_BUFFER_SIZE
    /\ eventBuffer[1] = 4
    /\ eventBuffer[MAX_BUFFER_SIZE] = 103
    /\ recentLimit = 200
    /\ recentEvents = eventBuffer

\* C30: a syncToR2 call that returned success: true ran both copies of its
\* command, the one of the config tree and the one of the workspace tree.
C30_SuccessRanBothCopies ==
    \A c \in Calls :
        (kind[c] = "full" /\ ret[c].success) =>
            syncCmdRun[c].trees = {"config", "workspace"}

\* C31: no replication path copies or deletes anything under the tenant's
\* durable prefix while the local primary configuration is missing, empty or
\* corrupt: a copy command of syncCriticalFilesToR2 (alone or as the critical
\* pass of syncBeforeShutdown) has run only over a valid configuration, and a
\* full pass has started its copy only after it saw a valid configuration.
C31_InvalidSourceNeverCopied ==
    \A c \in Calls :
        /\ kind[c] = "critical" => criticalCmdRun[c].source \in {"none", "valid"}
        /\ (kind[c] = "full" /\ pc[c] \in {"startCopy", "copy", "verify"}) =>
               sourceSeen[c] = "valid"

\* C36: syncCriticalFilesToR2 returns success: true only if every copy of its
\* command (credentials directory, primary config, registration marker)
\* completed without error.
C36_CriticalSuccessNeedsAllCopies ==
    \A c \in Calls :
        (kind[c] = "critical" /\ ret[c].success) => criticalCmdRun[c].failed = {}

\* C32: whenever restartContainer starts killing the processes of a tenant's
\* sandbox, no mirror copy of that tenant is running.
C32_NoKillDuringCopy ==
    [][(rpos = "kill" /\ rpos' = "start" /\ killsIssued') =>
           RunningCopies(tenant[CriticalCall]) = {}]_vars

\* C33: after restartContainer has gone through its kill loop and returned, a
\* start of a new service process is eventually attempted in the tenant's
\* sandbox: an ensureMoltbotGateway run of that sandbox reaches its
\* startProcess call (or a process started since the kill is there already),
\* whatever startupLocks held when restartContainer called
\* ensureMoltbotGateway.
C33_RestartLeadsToStart ==
    (rpos = "done" /\ killsIssued) ~>
        (\E a \in Callers :
            /\ sandboxName[a] = SandboxOf(tenant[CriticalCall])
            /\ startup[a] = "start" \/ process[a] \in {"starting", "running"})

\* C34: a syncToR2 call releases only the slot it acquired itself: when its
\* slot was reclaimed as stale and another call holds the tenant's slot, the
\* completion of the earlier call leaves the entry of the newer holder in
\* place.
C34_ReleasesOwnSlotOnly ==
    [][\A c \in Calls :
          (/\ pc[c] = "release" /\ pc'[c] = "done"
           /\ slotHolder[tenant[c]] \notin {c, NoCall}) =>
              /\ syncLocks'[tenant[c]] = syncLocks[tenant[c]]
              /\ syncLocks'[tenant[c]] # NoLock]_vars

\* C35: a process that findExistingMoltbotProcess takes for the gateway (the
\* one doEnsureMoltbotGateway starts, '/usr/local/bin/start-moltbot.sh') and
\* that is listed in status running is also taken for the running gateway by
\* the listing test of withWakeAndRetry and of wakeContainer's poll, so that a
\* call that has listed such a service does not go on to kill it.
C35_ServiceRecognised ==
    /\ \A p \in Processes :
          (isGatewayProcess(p.command) /\ p.status = "running") => gatewayRunning({p})
    /\ (rpc = "wake" /\ wakes = 0 /\ attempt = 0 /\ ~probe.called
           /\ firstListing = "processes") => ~ServiceRunning(Processes)

\* C37: a syncToR2 call that returns success: false because of the exit code of
\* its copy leaves the marker stored for the tenant as it was: the marker does
\* not name that call's sync id.
C37_FailedCopyLeavesMarker ==
    \A c \in Calls :
        (kind[c] = "full" /\ ret[c].error = "Rsync failed with exit code") =>
            lastSync[tenant[c]] # generateSyncId(c)

\* C38: restartContainer goes on whatever fails before the re-wake: whatever
\* syncBeforeShutdown returned or threw, its next step is the kill loop; the
\* kill loop leaves alive at most the one process whose kill threw and is
\* followed by the start step, also when listProcesses threw; and
\* ensureMoltbotGateway is invoked in that step, once.
C38_RestartToleratesFailures ==
    [][/\ (rpos = "sync" /\ rpos' # "sync") => rpos' = "kill"
       /\ (rpos = "kill" /\ rpos' # "kill") =>
             /\ rpos' = "start"
             /\ killsIssued' =>
                   Cardinality(ListedProcesses(tenant[CriticalCall])') <=
                       (IF faults' > faults THEN 1 ELSE 0)
       /\ (rpos = "start" /\ rpos' # "start") =>
             /\ rpos' = "done"
             /\ wakeCaller = NoCall /\ wakeCaller' # NoCall
             /\ gpc[wakeCaller'] = "idle" /\ gpc'[wakeCaller'] # "idle"
       /\ wakeCaller # NoCall => wakeCaller' = wakeCaller]_vars

\* a restart whose sync failed and whose kill of a still running copy threw:
\* the gateway process was killed all the same and ensureMoltbotGateway was
\* called
C38_Witness ==
    /\ rpos = "done"
    /\ ~syncResult.success
    /\ killsIssued
    /\ faults = 1
    /\ copyProc[CriticalCall] = "running"
    /\ \E p \in Callers : process[p] = "killed"
    /\ wakeCaller # NoCall /\ gpc[wakeCaller] # "idle"

\* C39: the delayed release of an ensureMoltbotGateway call removes the
\* sandbox's entry of startupLocks only if the entry still holds the startup
\* that call created: an entry is removed only by the timer of the call whose
\* startup it holds, and a timer that fires while the entry holds another
\* call's startup leaves startupLocks as it is.
C39_CleanupRemovesOwnSlotOnly ==
    [][/\ \A n \in SandboxNames :
             (startupLocks[n] # NoCall /\ startupLocks'[n] = NoCall) =>
                 /\ cleanup[startupLocks[n]] = "armed"
                 /\ cleanup'[startupLocks[n]] = "fired"
       /\ \A g \in Callers :
             (/\ cleanup[g] = "armed" /\ cleanup'[g] = "fired"
              /\ startupLocks[sandboxName[g]] # g) => startupLocks' = startupLocks]_vars

\* the timer of a call whose startup failed has fired while the entry held the
\* startup of the caller that retried, and the entry is still there
C39_Witness ==
    \E g, h \in Callers :
        /\ g # h
        /\ sandboxName[g] = sandboxName[h]
        /\ cleanup[g] = "fired"
        /\ cleanup[h] # "fired"
        /\ startupLocks[sandboxName[g]] = h

\* C40: withWakeAndRetry invokes the operation at most retryAttempts times, and
\* the backoff delay after the failed attempt with 0-based index k is
\* min(1000 * 2^k, 5000) ms: 1000, 2000, 4000, then 5000.
C40_AttemptsAndBackoff ==
    /\ operations <= retryAttempts
    /\ rpc = "backoff" =>
          delayMs = (CASE attempt = 0 -> 1000
                       [] attempt = 1 -> 2000
                       [] attempt = 2 -> 4000
                       [] OTHER -> 5000)

\* the fourth attempt of a call with retryAttempts 4 has invoked the operation,
\* as the three before it, and failed: the delay is the cap
C40_Witness ==
    /\ retryAttempts = 4
    /\ rpc = "backoff"
    /\ attempt = 3
    /\ operations = 4
    /\ delayMs = 5000

====
